---- MODULE Spec2Model ----
(***************************************************************************)
(* A model of the Plan*RAG engine: the plan graph (src/src/planrag.py),    *)
(* the LangGraph workflow that executes it (src/src/graph.py), the         *)
(* deterministic numeric step (src/src/numeric_tools.py), the LLM-free     *)
(* runner loop (src/src/executor.py), the REPL (src/src/main.py), the      *)
(* scorer (src/src/metrics.py) and the rank fusion of the retriever        *)
(* (src/src/hybrid_retrieval.py).                                          *)
(*                                                                         *)
(* Strings whose content the code inspects are sequences of one-character  *)
(* strings.  Node ids are TLA+ strings; IdChars gives their characters.    *)
(***************************************************************************)
EXTENDS Integers, Sequences, FiniteSets, TLC

VARIABLES
    dag,          \* PlanDAG.nodes: sequence of PlanNode records, in dict order
                  \* (<<>> while GraphState.dag is None)
    answered,     \* the set passed to PlanDAG.ready by the plain loop
    readyOut,     \* the list the last PlanDAG.ready call returned (node ids)
    iters,        \* iterations of the plain ready/batch loop executed so far
    loopDone,     \* the plain loop has hit `if not ready: break`
    backend,      \* OPENAI_API_KEY is set
    query,        \* GraphState.query
    memory,       \* GraphState.memory
    answers,      \* GraphState.answers
    retrieved,    \* GraphState.retrieved
    final_answer, \* GraphState.final_answer
    validation,   \* GraphState.validation
    active,       \* workflow nodes scheduled in the current superstep, not run yet
    triggered,    \* workflow nodes the finished nodes' edges lead to
    returned,     \* workflow nodes that returned the state in this superstep
    status,       \* "running", "done" or "crashed"
    error,        \* what raised when status is "crashed"
    inBatch,      \* batch_node is between its ready call and its return
    batch,        \* the ids of the batch being solved, in ready order
    solved,       \* results of _solve calls of the current batch, by node id
    merged,       \* node ids of the batch whose result is written to the state
    hist,         \* history of the turn, read by the properties only
    turn,         \* number of the REPL turn: app_graph.invoke calls so far
    call,         \* a call of a library function: its name and arguments
    result        \* what that call returned (NoneV while it has not returned)

loopVars == <<answered, readyOut, iters, loopDone>>

flowVars == <<backend, query, memory, answers, retrieved, final_answer,
              validation, active, triggered, returned, status, error, inBatch,
              batch, solved, merged, hist>>

vars == <<dag, answered, readyOut, iters, loopDone, backend, query, memory,
          answers, retrieved, final_answer, validation, active, triggered,
          returned, status, error, inBatch, batch, solved, merged, hist, turn,
          call, result>>

----------------------------------------------------------------------------
(* Bounds of the plan graphs the plain loop is run on. *)

\* number of depth levels a generated plan node may carry (depth \in 1..MaxDepth)
MaxDepth == 2

\* largest number of ids in one node's depends_on
MaxDeps == 1

\* the run counters of the turn's history stop counting at RunCap
RunCap == 2

\* make_batch_node(retriever, k_docs = 6, max_workers = 4)
MaxWorkers == 4

----------------------------------------------------------------------------
(* Characters and node ids *)

\* code point order of the characters that occur in node ids
Ord(c) ==
    CASE c = "." -> 46
      [] c = "0" -> 48 [] c = "1" -> 49 [] c = "2" -> 50 [] c = "3" -> 51
      [] c = "4" -> 52 [] c = "5" -> 53 [] c = "6" -> 54 [] c = "7" -> 55
      [] c = "8" -> 56 [] c = "9" -> 57
      [] c = "a" -> 97

\* the characters of each node id used by the model
IdChars(id) ==
    CASE id = "1.1"  -> <<"1", ".", "1">>
      [] id = "2.1"  -> <<"2", ".", "1">>
      [] id = "2.2"  -> <<"2", ".", "2">>
      [] id = "2.3"  -> <<"2", ".", "3">>
      [] id = "2.9"  -> <<"2", ".", "9">>
      [] id = "2.10" -> <<"2", ".", "1", "0">>
      [] id = "2.a"  -> <<"2", ".", "a">>
      [] id = "3.1"  -> <<"3", ".", "1">>
      [] id = "4.1"  -> <<"4", ".", "1">>
      [] id = "9.9"  -> <<"9", ".", "9">>

\* Python's str < str: lexicographic by code point, a proper prefix is smaller
RECURSIVE StrLess(_, _)
StrLess(s, t) ==
    IF t = <<>> THEN FALSE
    ELSE IF s = <<>> THEN TRUE
    ELSE IF Ord(Head(s)) # Ord(Head(t)) THEN Ord(Head(s)) < Ord(Head(t))
    ELSE StrLess(Tail(s), Tail(t))

----------------------------------------------------------------------------
(* Text helpers (Python str operations on character sequences) *)

Digits == {"0", "1", "2", "3", "4", "5", "6", "7", "8", "9"}

Uppers == {"A", "B", "C", "D", "E", "F", "G", "H", "I", "J", "K", "L", "M",
           "N", "O", "P", "Q", "R", "S", "T", "U", "V", "W", "X", "Y", "Z"}

Lowers == {"a", "b", "c", "d", "e", "f", "g", "h", "i", "j", "k", "l", "m",
           "n", "o", "p", "q", "r", "s", "t", "u", "v", "w", "x", "y", "z"}

DigitVal(c) ==
    CASE c = "0" -> 0 [] c = "1" -> 1 [] c = "2" -> 2 [] c = "3" -> 3
      [] c = "4" -> 4 [] c = "5" -> 5 [] c = "6" -> 6 [] c = "7" -> 7
      [] c = "8" -> 8 [] c = "9" -> 9

DigitChar(n) ==
    CASE n = 0 -> "0" [] n = 1 -> "1" [] n = 2 -> "2" [] n = 3 -> "3"
      [] n = 4 -> "4" [] n = 5 -> "5" [] n = 6 -> "6" [] n = 7 -> "7"
      [] n = 8 -> "8" [] n = 9 -> "9"

\* str.lower() on one character
LowerChar(c) ==
    CASE c = "A" -> "a" [] c = "B" -> "b" [] c = "C" -> "c" [] c = "D" -> "d"
      [] c = "E" -> "e" [] c = "F" -> "f" [] c = "G" -> "g" [] c = "H" -> "h"
      [] c = "I" -> "i" [] c = "J" -> "j" [] c = "K" -> "k" [] c = "L" -> "l"
      [] c = "M" -> "m" [] c = "N" -> "n" [] c = "O" -> "o" [] c = "P" -> "p"
      [] c = "Q" -> "q" [] c = "R" -> "r" [] c = "S" -> "s" [] c = "T" -> "t"
      [] c = "U" -> "u" [] c = "V" -> "v" [] c = "W" -> "w" [] c = "X" -> "x"
      [] c = "Y" -> "y" [] c = "Z" -> "z" [] OTHER -> c

Lower(s) == [i \in 1..Len(s) |-> LowerChar(s[i])]

\* s.startswith(p)
StartsWith(s, p) == Len(p) <= Len(s) /\ SubSeq(s, 1, Len(p)) = p

\* s.endswith(p)
EndsWith(s, p) ==
    Len(p) <= Len(s) /\ SubSeq(s, Len(s) - Len(p) + 1, Len(s)) = p

\* p in s
Contains(s, p) ==
    \E i \in 1..(Len(s) - Len(p) + 1) : SubSeq(s, i, i + Len(p) - 1) = p

IsSpace(c) == c \in {" ", "\n", "\t"}

\* s.strip()
RECURSIVE LStrip(_)
LStrip(s) == IF s # <<>> /\ IsSpace(Head(s)) THEN LStrip(Tail(s)) ELSE s

RECURSIVE RStrip(_)
RStrip(s) ==
    IF s # <<>> /\ IsSpace(s[Len(s)]) THEN RStrip(SubSeq(s, 1, Len(s) - 1))
    ELSE s

Strip(s) == RStrip(LStrip(s))

\* s.replace(c, "") for a single character c
Remove(s, c) == SelectSeq(s, LAMBDA x : x # c)

\* the index of the first c in s at or after i, Len(s) + 1 when there is none
RECURSIVE Find(_, _, _)
Find(s, c, i) ==
    IF i > Len(s) THEN Len(s) + 1
    ELSE IF s[i] = c THEN i
    ELSE Find(s, c, i + 1)

\* s.split(c): the pieces of s between occurrences of c
RECURSIVE Split(_, _)
Split(s, c) ==
    LET k == Find(s, c, 1)
    IN IF k > Len(s) THEN <<s>>
       ELSE <<SubSeq(s, 1, k - 1)>> \o Split(SubSeq(s, k + 1, Len(s)), c)

\* the end (exclusive) of the run of characters of class C that starts at i
RECURSIVE RunEnd(_, _, _)
RunEnd(s, C, i) ==
    IF i <= Len(s) /\ s[i] \in C THEN RunEnd(s, C, i + 1) ELSE i

\* Optional values: Python's None, and a value that is present
\* F applied to the value of x, for a value that is used more than once
Bind(x, F(_)) == CHOOSE r \in {F(v) : v \in {x}} : TRUE

NoneV == [some |-> FALSE, v |-> <<>>]

Some(x) == [some |-> TRUE, v |-> x]

----------------------------------------------------------------------------
(* numeric_tools.py.  A float is an exact fraction n/d with d > 0; inf is  *)
(* [n |-> 1, d |-> 0].                                                     *)

RECURSIVE Pow10(_)
Pow10(k) == IF k = 0 THEN 1 ELSE 10 * Pow10(k - 1)

Abs(x) == IF x < 0 THEN -x ELSE x

\* the value of a digit string, most significant digit first
RECURSIVE DigitsValTo(_, _)
DigitsValTo(ds, k) ==
    IF k = 0 THEN 0 ELSE 10 * DigitsValTo(ds, k - 1) + DigitVal(ds[k])

DigitsVal(ds) == DigitsValTo(ds, Len(ds))

\* the decimal digits of a natural number
RECURSIVE NatChars(_)
NatChars(n) ==
    IF n < 10 THEN <<DigitChar(n)>>
    ELSE NatChars(n \div 10) \o <<DigitChar(n % 10)>>

\* (?:,\d{3})* from position i: the end (exclusive) of the greedy match
RECURSIVE GroupsEnd(_, _)
GroupsEnd(t, i) ==
    IF /\ i + 3 <= Len(t)
       /\ t[i] = ","
       /\ t[i + 1] \in Digits /\ t[i + 2] \in Digits /\ t[i + 3] \in Digits
    THEN GroupsEnd(t, i + 4)
    ELSE i

\* (?:\.\d+)? from position i
FracEnd(t, i) ==
    IF i + 1 <= Len(t) /\ t[i] = "." /\ t[i + 1] \in Digits
    THEN RunEnd(t, Digits, i + 1)
    ELSE i

\* an optional single character c at position i
OptEnd(t, c, i) == IF i <= Len(t) /\ t[i] = c THEN i + 1 ELSE i

Min(a, b) == IF a < b THEN a ELSE b

\* the first alternative of _NUM from its digits on:
\* \d{1,3}(?:,\d{3})*(?:\.\d+)?\)?%?  (all greedy; nothing follows, so the
\* greedy choice is the match); 0 when no digit stands at i
Alt1Tail(t, i) ==
    IF i <= Len(t) /\ t[i] \in Digits
    THEN LET d == Min(RunEnd(t, Digits, i), i + 3)
         IN OptEnd(t, "%", OptEnd(t, ")", FracEnd(t, GroupsEnd(t, d))))
    ELSE 0

\* [-+]?\(? followed by the tail: the optional prefixes are tried greedily and
\* given up, in backtracking order, when no digit follows
Alt1End(t, i) ==
    LET sgn == i <= Len(t) /\ t[i] \in {"-", "+"}
        a   == IF sgn THEN i + 1 ELSE i
        tries == (IF sgn /\ a <= Len(t) /\ t[a] = "(" THEN <<a + 1>> ELSE <<>>)
                 \o (IF sgn THEN <<a>> ELSE <<>>)
                 \o (IF i <= Len(t) /\ t[i] = "(" THEN <<i + 1>> ELSE <<>>)
                 \o <<i>>
        hits == SelectSeq(tries, LAMBDA k : Alt1Tail(t, k) # 0)
    IN IF hits = <<>> THEN 0 ELSE Alt1Tail(t, Head(hits))

\* the second alternative of _NUM: \d+(?:\.\d+)?%?
Alt2End(t, i) ==
    IF i <= Len(t) /\ t[i] \in Digits
    THEN OptEnd(t, "%", FracEnd(t, RunEnd(t, Digits, i)))
    ELSE 0

\* _NUM.search(t) from position i on: <<start, end (exclusive)>> of the
\* leftmost match, <<0, 0>> when there is none
RECURSIVE NumSearch(_, _)
NumSearch(t, i) ==
    IF i > Len(t) THEN <<0, 0>>
    ELSE IF Alt1End(t, i) # 0 THEN <<i, Alt1End(t, i)>>
    ELSE IF Alt2End(t, i) # 0 THEN <<i, Alt2End(t, i)>>
    ELSE NumSearch(t, i + 1)

AllDigits(s) == \A k \in 1..Len(s) : s[k] \in Digits

\* the text before the first "." and the text after it
AroundPoint(body) ==
    <<SubSeq(body, 1, Find(body, ".", 1) - 1),
      SubSeq(body, Find(body, ".", 1) + 1, Len(body))>>

\* float(tok) for a token of the shape [sign] digits [. digits]; any other
\* character left in the token makes float() raise
FloatOf(tok) ==
    Bind(tok, LAMBDA t :
      Bind(AroundPoint(IF t # <<>> /\ t[1] \in {"-", "+"} THEN Tail(t) ELSE t),
        LAMBDA p :
          IF AllDigits(p[1]) /\ AllDigits(p[2]) /\ Len(p[1]) + Len(p[2]) > 0
          THEN Some([n |-> (IF t[1] = "-" THEN -1 ELSE 1) * DigitsVal(p[1] \o p[2]),
                     d |-> Pow10(Len(p[2]))])
          ELSE NoneV))

\* the matched token tok0 of parse_number: parentheses, separators, percent
\* sign and sign applied
TokenValue(tok0) ==
    Bind(StartsWith(tok0, <<"(">>) /\ EndsWith(tok0, <<")">>), LAMBDA neg :
      Bind(Strip(Remove(Remove(IF neg THEN SubSeq(tok0, 2, Len(tok0) - 1)
                                      ELSE tok0, ","), "$")),
        LAMBDA tok :
          Bind(FloatOf(IF EndsWith(tok, <<"%">>)
                       THEN Strip(SubSeq(tok, 1, Len(tok) - 1)) ELSE tok),
            LAMBDA f :
              IF ~f.some THEN NoneV
              ELSE Some([n |-> IF neg THEN -f.v.n ELSE f.v.n,
                         d |-> IF EndsWith(tok, <<"%">>) THEN f.v.d * 100
                               ELSE f.v.d]))))

\* parse_number(s)
parse_number(s) ==
    Bind(s, LAMBDA t :
      Bind(NumSearch(t, 1), LAMBDA m :
        IF m[1] = 0 THEN NoneV
        ELSE Bind(SubSeq(t, m[1], m[2] - 1), TokenValue)))

Inf == [n |-> 1, d |-> 0]

\* abs(x) > 1e-12.  The fractions of the model have a denominator below
\* 10^12 (TLC's integers are 32 bits wide), so every non-zero one is larger
NotTiny(x) == x.n # 0

RECURSIVE Gcd(_, _)
Gcd(a, b) == IF b = 0 THEN a ELSE Gcd(b, a % b)

\* the same fraction in lowest terms with a positive denominator
Frac(num, den) ==
    LET g == Gcd(Abs(num), Abs(den))
        s == IF den < 0 THEN -1 ELSE 1
    IN [n |-> s * (num \div g), d |-> s * (den \div g)]

\* compute_change(curr, prev): delta = curr - prev; pct = delta / prev when
\* abs(prev) > 1e-12, else inf
compute_change(curr, prev) ==
    Bind(Frac(curr.n, curr.d), LAMBDA c :
      Bind(Frac(prev.n, prev.d), LAMBDA p :
        Bind(Frac(c.n * p.d - p.n * c.d, c.d * p.d), LAMBDA delta :
          [delta |-> delta,
           pct |-> IF NotTiny(p) THEN Frac(delta.n * p.d, delta.d * p.n)
                   ELSE Inf])))

\* round(n / d) for n >= 0, d > 0, ties to even
RoundHalfEven(n, d) ==
    LET q == n \div d
        r == n % d
    IN IF 2 * r > d \/ (2 * r = d /\ q % 2 = 1) THEN q + 1 ELSE q

\* drop trailing "0" characters, and then a trailing "."
RECURSIVE StripZeros(_)
StripZeros(s) ==
    IF s # <<>> /\ s[Len(s)] = "0" THEN StripZeros(SubSeq(s, 1, Len(s) - 1))
    ELSE IF s # <<>> /\ s[Len(s)] = "." THEN SubSeq(s, 1, Len(s) - 1)
    ELSE s

\* the digits of m written with k digits after the point (k >= 0)
RECURSIVE PadLeft(_, _)
PadLeft(s, k) == IF Len(s) >= k THEN s ELSE PadLeft(<<"0">> \o s, k)

Fixed(m, k) ==
    LET ds == PadLeft(NatChars(m), k + 1)
    IN IF k = 0 THEN ds
       ELSE SubSeq(ds, 1, Len(ds) - k) \o <<".">> \o
            SubSeq(ds, Len(ds) - k + 1, Len(ds))

\* the decimal exponent e of n/d > 0: 10^e <= n/d < 10^(e+1)
RECURSIVE ExpOf(_, _, _)
ExpOf(n, d, e) ==
    IF n < d THEN ExpOf(n * 10, d, e - 1)
    ELSE IF n >= 10 * d THEN ExpOf(n, d * 10, e + 1)
    ELSE e

\* n/d > 0 rounded to 4 significant digits: <<mantissa in 1000..9999, exponent>>
Sig4(n, d) ==
    LET e == ExpOf(n, d, 0)
        m == IF e >= 3 THEN RoundHalfEven(n, d * Pow10(e - 3))
             ELSE RoundHalfEven(n * Pow10(3 - e), d)
    IN IF m = 10000 THEN <<1000, e + 1>> ELSE <<m, e>>

\* format(x, ".4g")
Fmt4gDigits(m, e) ==
    IF e < -4 \/ e >= 4
    THEN StripZeros(Fixed(m, 3)) \o <<"e">> \o
         (IF e < 0 THEN <<"-">> ELSE <<"+">>) \o PadLeft(NatChars(Abs(e)), 2)
    ELSE IF e = 3 THEN NatChars(m) ELSE StripZeros(Fixed(m, 3 - e))

Fmt4g(x) ==
    Bind(x, LAMBDA f :
      IF f.d = 0 THEN <<"i", "n", "f">>
      ELSE IF f.n = 0 THEN <<"0">>
      ELSE (IF f.n < 0 THEN <<"-">> ELSE <<>>) \o
           Bind(Sig4(Abs(f.n), f.d), LAMBDA sg : Fmt4gDigits(sg[1], sg[2])))

\* format(x, ".2f")
Fmt2f(x) ==
    Bind(x, LAMBDA f :
      IF f.d = 0 THEN <<"i", "n", "f">>
      ELSE (IF f.n < 0 THEN <<"-">> ELSE <<>>) \o
           Fixed(RoundHalfEven(Abs(f.n) * 100, f.d), 2))

\* format_change(delta, pct) = f"{delta:.4g} ({pct*100:.2f}%)"
format_change(delta, pct) ==
    Fmt4g(delta) \o <<" ", "(">> \o
    Bind(pct, LAMBDA p :
           Fmt2f(IF p.d = 0 THEN p ELSE Frac(p.n * 100, p.d))) \o <<"%", ")">>

----------------------------------------------------------------------------
(* PlanDAG (planrag.py) *)

NodeIds(d) == {d[i].id : i \in 1..Len(d)}

NodeOf(d, id) == d[CHOOSE i \in 1..Len(d) : d[i].id = id]

\* the sort key of PlanDAG.ready: (n.depth, n.id), compared as Python tuples
KeyLess(m, n) ==
    \/ m.depth < n.depth
    \/ m.depth = n.depth /\ StrLess(IdChars(m.id), IdChars(n.id))

\* sorted(): insert each element of r, left to right, after the last element
\* that is not greater than it (a stable insertion sort)
RECURSIVE InsertSorted(_, _)
InsertSorted(n, s) ==
    IF s = <<>> THEN <<n>>
    ELSE IF KeyLess(n, Head(s)) THEN <<n>> \o s
    ELSE <<Head(s)>> \o InsertSorted(n, Tail(s))

RECURSIVE SortNodes(_)
SortNodes(r) ==
    IF r = <<>> THEN <<>>
    ELSE InsertSorted(r[Len(r)], SortNodes(SubSeq(r, 1, Len(r) - 1)))

\* a ready test that forgets the parents (used to show C3 and C1 depend on them)
ReadyKeepNoParents(n, ans) == n.id \notin ans

\* a ready test that forgets the answered filter (used to show C6 depends on it)
ReadyKeepAnswered(n, ans) == \A p \in n.depends_on : p \in ans

\* the loop body of PlanDAG.ready: skip n when it is answered, keep it when
\* every parent is answered
ReadyKeep(n, ans) == n.id \notin ans /\ \A p \in n.depends_on : p \in ans

RECURSIVE ReadyFilter(_, _)
ReadyFilter(d, ans) ==
    IF d = <<>> THEN <<>>
    ELSE (IF ReadyKeep(Head(d), ans) THEN <<Head(d)>> ELSE <<>>)
         \o ReadyFilter(Tail(d), ans)

\* ready without the final sorted() (used to show C5 depends on it)
ReadyUnsorted(d, ans) == ReadyFilter(d, ans)

\* PlanDAG.ready(answered)
Ready(d, ans) == SortNodes(ReadyFilter(d, ans))

RECURSIVE MaxOf(_)
MaxOf(S) ==
    IF S = {} THEN 0
    ELSE LET x == CHOOSE y \in S : TRUE
             m == MaxOf(S \ {x})
         IN IF x > m THEN x ELSE m

\* PlanDAG.max_depth(): max over the nodes, default 0
max_depth(d) == MaxOf({d[i].depth : i \in 1..Len(d)})

Ids(s) == [i \in 1..Len(s) |-> s[i].id]

Range(s) == {s[i] : i \in 1..Len(s)}

\* min(n.depth for n in ready), for a non-empty ready list
MinDepth(ready) ==
    CHOOSE m \in {ready[i].depth : i \in 1..Len(ready)} :
        \A i \in 1..Len(ready) : m <= ready[i].depth

\* a batch of the first ready node only (used to show C1 depends on the batch)
BatchFirstOnly(ready) == <<Head(ready)>>

\* a batch of every ready node (used to show C11 depends on the depth filter)
BatchAll(ready) == ready

\* batch = [n for n in ready if n.depth == current_depth]
BatchOf(ready) == SelectSeq(ready, LAMBDA n : n.depth = MinDepth(ready))

----------------------------------------------------------------------------
(* maybe_compute_change (numeric_tools.py) *)

\* int(p) succeeds: an optional sign and at least one digit
IsIntText(p) ==
    LET body == IF p # <<>> /\ p[1] \in {"-", "+"} THEN Tail(p) ELSE p
    IN body # <<>> /\ \A k \in 1..Len(body) : body[k] \in Digits

IntOfText(p) ==
    IF p[1] = "-" THEN -DigitsVal(Tail(p))
    ELSE IF p[1] = "+" THEN DigitsVal(Tail(p))
    ELSE DigitsVal(p)

\* tuple(int(p) for p in x.split("."))
IntPath(id) ==
    LET ps == Split(IdChars(id), ".")
    IN [k \in 1..Len(ps) |-> IntOfText(ps[k])]

PathOk(id) ==
    LET ps == Split(IdChars(id), ".")
    IN \A k \in 1..Len(ps) : IsIntText(ps[k])

\* Python's tuple < tuple on tuples of ints
RECURSIVE TupleLess(_, _)
TupleLess(a, b) ==
    IF b = <<>> THEN FALSE
    ELSE IF a = <<>> THEN TRUE
    ELSE IF Head(a) # Head(b) THEN Head(a) < Head(b)
    ELSE TupleLess(Tail(a), Tail(b))

\* the ids of S in ascending string order: sorted() on the keys themselves
RECURSIVE SortByString(_)
SortByString(S) ==
    IF S = {} THEN <<>>
    ELSE LET m == CHOOSE x \in S :
                      \A y \in S \ {x} : ~StrLess(IdChars(y), IdChars(x))
         IN <<m>> \o SortByString(S \ {m})

\* the "2." keys sorted as plain strings (used to show C12 depends on the key)
SortAsText(S) == SortByString(S)

\* the ids of S in ascending order of their integer path
RECURSIVE SortByPath(_)
SortByPath(S) ==
    IF S = {} THEN <<>>
    ELSE LET m == CHOOSE x \in S :
                      \A y \in S \ {x} : ~TupleLess(IntPath(y), IntPath(x))
         IN <<m>> \o SortByPath(S \ {m})

\* [k for k in answers.keys() if k.startswith("2.")]
MetricKeys(ans) == {k \in DOMAIN ans : StartsWith(IdChars(k), <<"2", ".">>)}

\* maybe_compute_change raises: int() fails on a path component of a "2." key
ComputeRaises(ans) ==
    "3.1" \in DOMAIN ans /\ \E k \in MetricKeys(ans) : ~PathOk(k)

\* the computation without the test for the node "3.1"
ChangeWithoutNode(ans) ==
    Bind(SortByPath(MetricKeys(ans)), LAMBDA keys :
      IF Len(keys) < 2 THEN NoneV
      ELSE Bind(parse_number(ans[keys[1]]), LAMBDA a :
             Bind(parse_number(ans[keys[2]]), LAMBDA b :
               IF ~a.some \/ ~b.some THEN NoneV
               ELSE Bind(compute_change(a.v, b.v), LAMBDA r :
                      Some(format_change(r.delta, r.pct))))))

\* maybe_compute_change(answers), when it does not raise
maybe_compute_change(ans) ==
    IF "3.1" \notin DOMAIN ans THEN NoneV
    ELSE Bind(SortByPath(MetricKeys(ans)), LAMBDA keys :
           IF Len(keys) < 2 THEN NoneV
           ELSE Bind(parse_number(ans[keys[1]]), LAMBDA a :
                  Bind(parse_number(ans[keys[2]]), LAMBDA b :
                    IF ~a.some \/ ~b.some THEN NoneV
                    ELSE Bind(compute_change(a.v, b.v), LAMBDA r :
                           Some(format_change(r.delta, r.pct))))))

----------------------------------------------------------------------------
(* Maps (Python dicts read as mappings) *)

EmptyMap == [x \in {} |-> <<>>]

Put(m, k, v) == [x \in DOMAIN m \cup {k} |-> IF x = k THEN v ELSE m[x]]

Restrict(m, S) == [x \in DOMAIN m \cap S |-> m[x]]

----------------------------------------------------------------------------
(* Memory (graph.py) *)

\* a JSON value that is a string, and one that is not
StrVal(s) == [str |-> TRUE, s |-> s]

NonStr == [str |-> FALSE, s |-> <<>>]

\* the set of keys k, in the order the loop visits them, folded into out
RECURSIVE MergeKeys(_, _, _)
MergeKeys(out, updates, ks) ==
    IF ks = {} THEN out
    ELSE LET k == CHOOSE x \in ks : TRUE
             v == updates[k]
         IN MergeKeys(IF v.str /\ Strip(v.s) # <<>> THEN Put(out, k, Strip(v.s))
                      ELSE out,
                      updates, ks \ {k})

\* a merge that starts from an empty dict instead of a copy of old (used to
\* show C19 depends on the copy)
MergeIntoEmpty(old, updates) == MergeKeys(EmptyMap, updates, DOMAIN updates)

\* _merge_memory(old, updates)
merge_memory(old, updates) == MergeKeys(old, updates, DOMAIN updates)

\* a search that never finds a year
NoYear(g, i) == NoneV

\* re.search(r"(20\d{2}|19\d{2})", g): the first match, NoneV when none
RECURSIVE YearSearch(_, _)
YearSearch(g, i) ==
    IF i + 3 > Len(g) THEN NoneV
    ELSE IF /\ <<g[i], g[i + 1]>> \in {<<"2", "0">>, <<"1", "9">>}
            /\ g[i + 2] \in Digits /\ g[i + 3] \in Digits
         THEN Some(SubSeq(g, i, i + 3))
         ELSE YearSearch(g, i + 1)

\* \w and the class [A-Za-z0-9.&-]
IsWord(c) == c \in Uppers \cup Lowers \cup Digits \cup {"_"}

EntClass == Uppers \cup Lowers \cup Digits \cup {".", "&", "-"}

\* \b between positions p - 1 and p
Boundary(g, p) ==
    (p > 1 /\ p - 1 <= Len(g) /\ IsWord(g[p - 1])) #
    (p >= 1 /\ p <= Len(g) /\ IsWord(g[p]))

\* the largest y in lo..hi with a word boundary at y, 0 when there is none
RECURSIVE LastBoundary(_, _, _)
LastBoundary(g, lo, hi) ==
    IF hi < lo THEN 0
    ELSE IF Boundary(g, hi) THEN hi
    ELSE LastBoundary(g, lo, hi - 1)

\* (?:\s+[A-Z][A-Za-z0-9.&-]+)\b from x: the end of the greedy match, or 0
EntSecond(g, x) ==
    LET w == RunEnd(g, {" ", "\n", "\t"}, x)
    IN IF w > x /\ w <= Len(g) /\ g[w] \in Uppers
       THEN LastBoundary(g, w + 2, RunEnd(g, EntClass, w + 1))
       ELSE 0

\* the first word ends before x: the rest of the pattern from there, or 0
EntFrom(g, x) ==
    IF EntSecond(g, x) # 0 THEN EntSecond(g, x)
    ELSE IF Boundary(g, x) THEN x
    ELSE 0

\* backtrack the first word from hi down to lo
RECURSIVE EntBack(_, _, _)
EntBack(g, lo, hi) ==
    IF hi < lo THEN 0
    ELSE IF EntFrom(g, hi) # 0 THEN EntFrom(g, hi)
    ELSE EntBack(g, lo, hi - 1)

\* re.search(r"\b([A-Z][A-Za-z0-9.&-]+(?:\s+[A-Z][A-Za-z0-9.&-]+)?)\b", g)
RECURSIVE EntSearch(_, _)
EntSearch(g, i) ==
    IF i > Len(g) THEN NoneV
    ELSE IF /\ g[i] \in Uppers
            /\ Boundary(g, i)
            /\ EntBack(g, i + 2, RunEnd(g, EntClass, i + 1)) # 0
         THEN Some(SubSeq(g, i, EntBack(g, i + 2, RunEnd(g, EntClass, i + 1)) - 1))
         ELSE EntSearch(g, i + 1)

\* the memory update at the end of batch_node, from the answer g of node "1.1"
GroundingUpdates(g) ==
    LET year == YearSearch(g, 1)
        ent  == EntSearch(g, 1)
        u1   == IF year.some THEN Put(EmptyMap, "period", StrVal(year.v))
                ELSE EmptyMap
    IN IF ent.some THEN Put(u1, "entity", StrVal(ent.v)) ELSE u1

----------------------------------------------------------------------------
(* heuristic_plan (planrag.py).  A node's text is kept as a short tag: the   *)
(* engine only passes it on to retrieval and generation.                    *)

\* the keywords of the metric "net income"
NetIncomeWords ==
    {<<"n", "e", "t", " ", "i", "n", "c", "o", "m", "e">>,
     <<"p", "r", "o", "f", "i", "t">>,
     <<"e", "a", "r", "n", "i", "n", "g", "s">>}

\* the keywords of the metric "revenue"
RevenueWords ==
    {<<"r", "e", "v", "e", "n", "u", "e">>,
     <<"s", "a", "l", "e", "s">>,
     <<"t", "o", "p", " ", "l", "i", "n", "e">>}

\* the keywords of the metric "margin"
MarginWords ==
    {<<"g", "r", "o", "s", "s", " ", "m", "a", "r", "g", "i", "n">>,
     <<"o", "p", "e", "r", "a", "t", "i", "n", "g", " ", "m", "a", "r",
       "g", "i", "n">>,
     <<"m", "a", "r", "g", "i", "n">>}

\* the keywords that add the change node "3.1"
ChangeWords ==
    {<<"y", "o", "y">>,
     <<"y", "e", "a", "r", " ", "o", "v", "e", "r", " ", "y", "e", "a", "r">>,
     <<"c", "h", "a", "n", "g", "e">>,
     <<"d", "i", "f", "f", "e", "r", "e", "n", "c", "e">>,
     <<"d", "e", "l", "t", "a">>,
     <<"i", "n", "c", "r", "e", "a", "s", "e">>,
     <<"d", "e", "c", "r", "e", "a", "s", "e">>}

\* all(k in q for k in ks) (used to show C17 depends on any())
AllIn(q, ks) == \A k \in ks : Contains(q, k)

\* any(k in q for k in ks)
AnyIn(q, ks) == \E k \in ks : Contains(q, k)

PlanNode(id, text, depth, deps) ==
    [id |-> id, text |-> text, depth |-> depth, depends_on |-> deps]

\* the metric names matched in the question, in the order of the three tests
MatchedMetrics(q) ==
    (IF AnyIn(q, NetIncomeWords)
     THEN <<"net income">> ELSE <<>>) \o
    (IF AnyIn(q, RevenueWords)
     THEN <<"revenue">> ELSE <<>>) \o
    (IF AnyIn(q, MarginWords)
     THEN <<"margin">> ELSE <<>>)

MetricId(j) == CASE j = 1 -> "2.1" [] j = 2 -> "2.2" [] j = 3 -> "2.3"

\* heuristic_plan(question)
heuristic_plan(question) ==
    LET q  == Lower(question)
        m0 == MatchedMetrics(q)
        metrics == IF m0 = <<>> THEN <<"requested">> ELSE m0
        ground  == <<PlanNode("1.1", "ground", 1, {})>>
        level2  == [j \in 1..Len(metrics) |->
                       PlanNode(MetricId(j), metrics[j], 2, {"1.1"})]
        change  == IF AnyIn(q, ChangeWords)
                   THEN <<PlanNode("3.1", "change", 3,
                                   {MetricId(j) : j \in 1..Len(metrics)})>>
                   ELSE <<>>
    IN ground \o level2 \o change

----------------------------------------------------------------------------
(* The surroundings of one turn: the questions asked, the indexed document,  *)
(* and what the retriever and the chat models may hand back.                 *)

\* a question naming one metric and a change
ScenarioQuestion ==
    <<"W", "h", "a", "t", " ", "w", "a", "s", " ", "t", "h", "e", " ", "r",
      "e", "v", "e", "n", "u", "e", " ", "c", "h", "a", "n", "g", "e", " ",
      "f", "r", "o", "m", " ", "2", "0", "1", "9", " ", "t", "o", " ", "2",
      "0", "2", "0", "?">>

\* a question naming two metrics and a change
TwoMetricQuestion ==
    <<"C", "o", "m", "p", "a", "r", "e", " ", "r", "e", "v", "e", "n", "u",
      "e", " ", "a", "n", "d", " ", "n", "e", "t", " ", "i", "n", "c", "o",
      "m", "e", ":", " ", "a", "n", "y", " ", "i", "n", "c", "r", "e", "a",
      "s", "e", "?">>

\* a question with none of the planner's keywords
PlainQuestion ==
    <<"W", "h", "o", " ", "a", "u", "d", "i", "t", "s", " ", "t", "h", "e",
      " ", "b", "o", "o", "k", "s", "?">>

Questions == {ScenarioQuestion, TwoMetricQuestion, PlainQuestion}

\* _flatten_table on {"2020": {"Revenue": "100"}, "2019": {"Revenue": "80"}}:
\* one "row | col | value" line per cell, in dict order
Chunks ==
    <<
      <<"R", "e", "v", "e", "n", "u", "e", " ", "|", " ", "2", "0", "2",
        "0", " ", "|", " ", "1", "0", "0">>,
      <<"R", "e", "v", "e", "n", "u", "e", " ", "|", " ", "2", "0", "1",
        "9", " ", "|", " ", "8", "0">>
    >>

\* HybridRetriever.query(text, k = 6): nothing for a blank text, else the
\* chunks in the order of their fused scores (chunk indices, best first); the
\* scores come from the embedding model and are not fixed by the text
RetrieverQuery(text) ==
    IF text = "" THEN {<<>>}
    ELSE {<<1, 2>>, <<2, 1>>}

Snippets(hits) == [i \in 1..Len(hits) |-> Chunks[hits[i]]]

\* s.split("\n")[0][:300]
FirstLine(s) ==
    LET line == Split(s, "\n")[1]
    IN SubSeq(line, 1, Min(Len(line), 300))

NotAvailable == <<"N", "/", "A">>

\* what the generator model may write for a node
GenReplies == {<<"1", "0", "0">>, <<"8", "0", " ">>}

\* call_generator(subquery, parents, snippets): the answers it can return
call_generator(hasKey, snippets) ==
    IF ~hasKey
    THEN {IF snippets # <<>> THEN FirstLine(snippets[1]) ELSE NotAvailable}
    ELSE {Strip(r) : r \in GenReplies}

\* plans the planner model may return (besides any that make call_planner
\* fall back): a dependency cycle, a parent id that is no node, a flat plan
\* with a blank subquery, and a plan with a letter in a metric id
CyclePlan ==
    <<PlanNode("1.1", "q", 1, {}),
      PlanNode("2.1", "q", 2, {"2.2"}),
      PlanNode("2.2", "q", 2, {"2.1"})>>

DanglingPlan ==
    <<PlanNode("1.1", "q", 1, {}),
      PlanNode("2.1", "q", 2, {"9.9"})>>

FlatPlan ==
    <<PlanNode("2.9", "q", 1, {}),
      PlanNode("2.10", "", 1, {}),
      PlanNode("3.1", "q", 1, {})>>

LetterPlan ==
    <<PlanNode("2.a", "q", 1, {}),
      PlanNode("3.1", "q", 1, {})>>

\* what the planner model may write: a text _parse_plan_json cannot parse, or
\* parsed JSON whose "nodes" are objects with the fields they happen to carry
\* (depth as the text int() is given)
PlannerReplies ==
    LET raw(n) == [id |-> n.id, text |-> n.text, depth |-> NatChars(n.depth),
                   depends_on |-> n.depends_on]
        reply(plan) == [parsed |-> TRUE,
                        nodes |-> [i \in 1..Len(plan) |-> raw(plan[i])]]
        root == raw(PlanNode("1.1", "q", 1, {}))
    IN {reply(CyclePlan), reply(DanglingPlan), reply(FlatPlan),
        reply(LetterPlan),
        [parsed |-> FALSE, nodes |-> <<>>],
        reply(<<>>),
        [parsed |-> TRUE, nodes |-> <<root, [id |-> "2.1", depth |-> <<"2">>]>>],
        [parsed |-> TRUE,
         nodes |-> <<root, [id |-> "2.1", text |-> "q", depth |-> <<"x">>]>>]}

\* a loop that leaves out a node it cannot build and goes on (used to show
\* C15 depends on the fallback for a node that lacks a field)
RECURSIVE BuildSkipping(_, _)
BuildSkipping(raw, nodes) ==
    IF raw = <<>> THEN Some(nodes)
    ELSE IF \/ ~({"id", "text", "depth"} \subseteq DOMAIN Head(raw))
            \/ ~IsIntText(Strip(Head(raw).depth))
         THEN BuildSkipping(Tail(raw), nodes)
         ELSE BuildSkipping(Tail(raw),
                            Append(nodes, PlanNode(Head(raw).id, Head(raw).text,
                                                   IntOfText(Strip(Head(raw).depth)),
                                                   {})))

\* the loop `for node in data.get("nodes", [])` of call_planner from the dict
\* nodes built so far: NoneV when node["id"], node["text"], node["depth"] or
\* int() raises, else the dict with every node stored under its id
RECURSIVE BuildNodes(_, _)
BuildNodes(raw, nodes) ==
    IF raw = <<>> THEN Some(nodes)
    ELSE IF \/ ~({"id", "text", "depth"} \subseteq DOMAIN Head(raw))
            \/ ~IsIntText(Strip(Head(raw).depth))
         THEN NoneV
         ELSE LET n == PlanNode(Head(raw).id, Head(raw).text,
                                IntOfText(Strip(Head(raw).depth)),
                                IF "depends_on" \in DOMAIN Head(raw)
                                THEN Head(raw).depends_on ELSE {})
              IN BuildNodes(Tail(raw),
                            IF n.id \in NodeIds(nodes)
                            THEN [i \in 1..Len(nodes) |->
                                     IF nodes[i].id = n.id THEN n ELSE nodes[i]]
                            ELSE Append(nodes, n))

\* call_planner(question): the plans it can return.  Without a key, when
\* chat.invoke raises, when the reply does not parse, when a node cannot be
\* built and when no node was built, it is heuristic_plan(question)
call_planner(hasKey, question) ==
    IF ~hasKey THEN {heuristic_plan(question)}
    ELSE {heuristic_plan(question)} \cup
         {Bind(IF r.parsed THEN BuildNodes(r.nodes, <<>>) ELSE NoneV,
               LAMBDA built : IF built.some /\ built.v # <<>> THEN built.v
                              ELSE heuristic_plan(question)) :
            r \in PlannerReplies}

\* A reply of a chat model that is read as JSON: kind says what the text is,
\* fields holds the members of the object in it.
\*   "object"    the whole text is a JSON object
\*   "other"     the whole text is JSON, but no object (a list, a number)
\*   "block"     not JSON as a whole; it holds a ```json fence or a {...} span
\*               that is a JSON object
\*   "badblock"  not JSON as a whole; the fence or {...} span is not JSON
\*   "text"      not JSON, no fence and no braces
\* _parse_json(text): raised when json.loads on the fence or span raises,
\* dict when the value returned is an object
parse_json(r) ==
    [raised |-> r.kind = "badblock",
     dict   |-> r.kind \in {"object", "block", "text"},
     fields |-> IF r.kind \in {"object", "block"} THEN r.fields ELSE EmptyMap]

\* what the resolver model may write.  memory_updates is an object (dict, with
\* its items) or another non-empty JSON value
ResolverReplies ==
    {[kind |-> "object", fields |-> EmptyMap],
     [kind |-> "block",
      fields |->
          [k \in {"rewritten", "memory_updates"} |->
              IF k = "rewritten" THEN ScenarioQuestion
              ELSE [dict |-> TRUE,
                    items |->
                        [x \in {"entity", "period", "topic"} |->
                            CASE x = "entity" -> StrVal(<<" ", "A", "c", "m", "e">>)
                              [] x = "period" -> NonStr
                              [] x = "topic"  -> StrVal(<<"x">>)]]]],
     [kind |-> "object",
      fields |-> [k \in {"memory_updates"} |-> [dict |-> FALSE, items |-> EmptyMap]]],
     [kind |-> "text", fields |-> EmptyMap],
     [kind |-> "badblock", fields |-> EmptyMap],
     [kind |-> "other", fields |-> EmptyMap]}

MemoryKeys == {"entity", "period", "metric", "unit"}

\* no filter: every proposed update is returned (used to show C20 depends on
\* the filter)
AllUpdates(memu) == memu

\* the filter at the end of call_resolver
KnownUpdates(memu) ==
    [k \in {x \in DOMAIN memu \cap MemoryKeys :
                memu[x].str /\ Strip(memu[x].s) # <<>>} |-> memu[k]]

\* call_resolver(query, memory): the (rewritten, memory_updates) pairs it can
\* return; ok is FALSE when an exception leaves it (_parse_json raised,
\* data.get on a value that is no dict, memu.items() on a value that is none)
call_resolver(hasKey, q) ==
    IF ~hasKey
    THEN {[ok |-> TRUE, rewritten |-> q, memory_updates |-> EmptyMap]}
    ELSE {Bind(parse_json(r), LAMBDA data :
            IF data.raised \/ ~data.dict
            THEN [ok |-> FALSE, rewritten |-> q, memory_updates |-> EmptyMap]
            ELSE LET rewritten == IF /\ "rewritten" \in DOMAIN data.fields
                                     /\ data.fields.rewritten # <<>>
                                  THEN data.fields.rewritten ELSE q
                     memu == IF "memory_updates" \in DOMAIN data.fields
                             THEN data.fields.memory_updates
                             ELSE [dict |-> TRUE, items |-> EmptyMap]
                 IN IF ~memu.dict
                    THEN [ok |-> FALSE, rewritten |-> q,
                          memory_updates |-> EmptyMap]
                    ELSE [ok |-> TRUE, rewritten |-> rewritten,
                          memory_updates |-> KnownUpdates(memu.items)]) :
             r \in ResolverReplies}

\* "\n".join(f"{k}: {v}" for k, v in sorted(answers.items()))
RECURSIVE JoinAnswers(_, _)
JoinAnswers(ans, keys) ==
    IF keys = <<>> THEN <<>>
    ELSE IdChars(Head(keys)) \o <<":", " ">> \o ans[Head(keys)] \o
         (IF Len(keys) > 1 THEN <<"\n">> ELSE <<>>) \o
         JoinAnswers(ans, Tail(keys))

SummaryHeader == <<"\n", "\n", "S", "u", "m", "m", "a", "r", "y", ":", "\n">>

\* what the aggregator model may write
AggregatorReplies ==
    {<<"R", "e", "v", "e", "n", "u", "e", " ", "r", "o", "s", "e", ".", " ">>,
     <<>>}

\* call_aggregator(query, answers): the texts it can return
call_aggregator(hasKey, q, ans) ==
    IF ~hasKey
    THEN {q \o SummaryHeader \o JoinAnswers(ans, SortByString(DOMAIN ans))}
    ELSE {Strip(r) : r \in AggregatorReplies}

Pass == <<"p", "a", "s", "s">>

Fail == <<"f", "a", "i", "l">>

\* what the validator model may write: verdict and corrected as texts,
\* confidence as a text float() is given or a value it rejects (number FALSE)
ValidatorReplies ==
    LET obj(v, c, n) ==
            [kind |-> "object",
             fields |-> [k \in {"verdict", "corrected", "confidence"} |->
                            CASE k = "verdict" -> v
                              [] k = "corrected" -> c
                              [] k = "confidence" -> [number |-> n]]]
        up == <<"U", "p", " ", "2", "0", ".">>
    IN {obj(Pass, <<>>, TRUE),
        obj(<<"F", "A", "I", "L">>, <<>>, TRUE),
        obj(<<"F", "A", "I", "L">>, up, TRUE),
        obj(<<"o", "k">>, up, TRUE),
        obj(Pass, <<>>, FALSE),
        [kind |-> "text", fields |-> EmptyMap],
        [kind |-> "badblock", fields |-> EmptyMap],
        [kind |-> "other", fields |-> EmptyMap]}

\* call_validator(query, final_answer, answers, snippets_by_node): the results
\* it can return, each value as validate_node stores it; ok is FALSE when an
\* exception leaves it (_parse_json raised, data.get on a value that is no
\* dict, float() on a confidence that is no number)
call_validator(hasKey) ==
    IF ~hasKey
    THEN {[ok |-> TRUE, verdict |-> Pass, corrected |-> <<>>,
           confidence |-> "0.6", rationale |-> "No LLM; heuristic pass."]}
    ELSE {Bind(parse_json(r), LAMBDA data :
            IF \/ data.raised
               \/ ~data.dict
               \/ /\ "confidence" \in DOMAIN data.fields
                  /\ ~data.fields.confidence.number
            THEN [ok |-> FALSE, verdict |-> Pass, corrected |-> <<>>,
                  confidence |-> "0.6", rationale |-> "r"]
            ELSE LET verdict == IF "verdict" \in DOMAIN data.fields
                                THEN Lower(data.fields.verdict) ELSE Pass
                 IN [ok |-> TRUE,
                     verdict |-> IF verdict \in {Pass, Fail} THEN verdict ELSE Pass,
                     corrected |-> IF "corrected" \in DOMAIN data.fields
                                   THEN data.fields.corrected ELSE <<>>,
                     confidence |-> "0.6", rationale |-> "r"]) :
             r \in ValidatorReplies}

NoAnswer == <<"N", "o", " ", "a", "n", "s", "w", "e", "r", ".">>

----------------------------------------------------------------------------
(* The plan graphs the plain loop and the ready calls are exercised on: every *)
(* graph over PlanIds in which a node has a depth in 1..MaxDepth and at most  *)
(* MaxDeps parents among DepIds (a node, itself, or an id that is no node).   *)

PlanIds == <<"1.1", "2.9", "2.10">>

DepIds == {"1.1", "2.9", "2.10", "9.9"}

Absent == [depth |-> 0, depends_on |-> {}]

NodeChoices ==
    {Absent} \cup
    [depth : 1..MaxDepth,
     depends_on : {D \in SUBSET DepIds : Cardinality(D) <= MaxDeps}]

RECURSIVE BuildPlan(_, _)
BuildPlan(ids, c) ==
    IF ids = <<>> THEN <<>>
    ELSE (IF c[Head(ids)] = Absent THEN <<>>
          ELSE <<[id |-> Head(ids), depth |-> c[Head(ids)].depth,
                  depends_on |-> c[Head(ids)].depends_on]>>)
         \o BuildPlan(Tail(ids), c)

LoopPlans == {BuildPlan(PlanIds, c) : c \in [Range(PlanIds) -> NodeChoices]}

\* ids reachable from id along depends_on edges in at most k steps
RECURSIVE ReachIn(_, _, _)
ReachIn(d, S, k) ==
    IF k = 0 THEN {}
    ELSE LET step == UNION {NodeOf(d, x).depends_on : x \in S \cap NodeIds(d)}
         IN step \cup ReachIn(d, step, k - 1)

Acyclic(d) == \A id \in NodeIds(d) : id \notin ReachIn(d, {id}, Len(d))

NoDangling(d) == \A i \in 1..Len(d) : d[i].depends_on \subseteq NodeIds(d)

\* the PlanNode invariant of the data model: parents are nodes of lower depth
StrictDepths(d) ==
    \A i \in 1..Len(d) :
        /\ d[i].depth >= 1
        /\ \A p \in d[i].depends_on :
               p \in NodeIds(d) /\ NodeOf(d, p).depth < d[i].depth

----------------------------------------------------------------------------
(* The state of one turn (GraphState and the workflow's position).           *)
(* GraphState.logs is only ever appended to and never read: it is left out.  *)

NoHistory ==
    [computeRuns |-> 0, finalRuns |-> 0, validateRuns |-> 0, stalledRuns |-> 0,
     writes |-> [x \in {} |-> 0], startAnswers |-> EmptyMap,
     startRetrieved |-> EmptyMap, batchAfterCompute |-> FALSE,
     finalBeforeCompute |-> FALSE, finalAhead |-> FALSE, order |-> <<>>,
     computedInBatch |-> FALSE]

\* GraphState(query = q, memory = m) before the workflow has taken a step
FreshState(q, m) ==
    /\ query = q
    /\ memory = m
    /\ answers = EmptyMap
    /\ retrieved = EmptyMap
    /\ final_answer = NoneV
    /\ validation = EmptyMap
    /\ inBatch = FALSE
    /\ batch = <<>>
    /\ solved = EmptyMap
    /\ merged = {}
    /\ returned = {}
    /\ error = "none"
    /\ hist = NoHistory

\* no turn is running
NoTurn ==
    /\ turn = 0
    /\ backend = FALSE
    /\ FreshState(<<>>, EmptyMap)
    /\ active = {}
    /\ triggered = {}
    /\ status = "done"

----------------------------------------------------------------------------
(* SpecReady: PlanDAG.ready called again and again on one graph while the    *)
(* answered set grows by arbitrary ids.                                      *)

InitReady ==
    /\ dag \in LoopPlans
    /\ answered = {}
    /\ readyOut = Ids(Ready(dag, {}))
    /\ iters = 0
    /\ loopDone = FALSE
    /\ NoTurn
    /\ call = NoneV
    /\ result = NoneV

\* the caller adds id to answered and calls ready again
ReadyCall(id) ==
    /\ id \notin answered
    /\ answered' = answered \cup {id}
    /\ readyOut' = Ids(Ready(dag, answered'))
    /\ UNCHANGED <<dag, iters, loopDone>>
    /\ UNCHANGED flowVars
    /\ UNCHANGED <<turn, call, result>>

NextReady == \E id \in DepIds : ReadyCall(id)

SpecReady == InitReady /\ [][NextReady]_vars

----------------------------------------------------------------------------
(* SpecLoop: the ready / minimum-depth batch / answered loop of              *)
(* PlanRAGRunner.run, run on an arbitrary plan graph.  Only the key set of   *)
(* answers steers the loop, so only that set is kept.                        *)

InitLoop ==
    /\ dag \in LoopPlans
    /\ answered = {}
    /\ readyOut = <<>>
    /\ iters = 0
    /\ loopDone = FALSE
    /\ NoTurn
    /\ call = NoneV
    /\ result = NoneV

\* ready = plan.ready(set(answers.keys())); if not ready: break
LoopBreak ==
    /\ ~loopDone
    /\ Ready(dag, answered) = <<>>
    /\ loopDone' = TRUE
    /\ readyOut' = <<>>
    /\ UNCHANGED <<dag, answered, iters>>
    /\ UNCHANGED flowVars
    /\ UNCHANGED <<turn, call, result>>

\* one iteration: every node of the minimum-depth batch gets an answers entry
LoopIter ==
    /\ ~loopDone
    /\ Ready(dag, answered) # <<>>
    /\ LET ready == Ready(dag, answered)
           now   == BatchOf(ready)
       IN /\ answered' = answered \cup Range(Ids(now))
          /\ readyOut' = Ids(ready)
    /\ iters' = iters + 1
    /\ UNCHANGED <<dag, loopDone>>
    /\ UNCHANGED flowVars
    /\ UNCHANGED <<turn, call, result>>

NextLoop == LoopBreak \/ LoopIter

SpecLoop == InitLoop /\ [][NextLoop]_vars

----------------------------------------------------------------------------
(* SpecPlan: heuristic_plan called on one question out of a family built   *)
(* from keywords of each metric group and change keywords, in mixed case.  *)

\* "Show <a> <b> <c> <d>?" for every choice of a phrase (or none) per slot,
\* and the question "What was the year-over-year change in revenue?"
PlanQuestions ==
    LET income == {<<>>, <<"N", "e", "t", " ", "i", "n", "c", "o", "m", "e">>,
                   <<"P", "R", "O", "F", "I", "T">>}
        sales  == {<<>>, <<"r", "e", "v", "e", "n", "u", "e">>,
                   <<"T", "o", "p", " ", "l", "i", "n", "e">>}
        margin == {<<>>, <<"m", "a", "r", "g", "i", "n">>,
                   <<"G", "r", "o", "s", "s", " ", "M", "a", "r", "g", "i", "n">>}
        change == {<<>>, <<"c", "h", "a", "n", "g", "e">>,
                   <<"Y", "o", "Y">>,
                   <<"d", "e", "c", "r", "e", "a", "s", "e">>}
    IN {<<"S", "h", "o", "w", " ">> \o a \o <<" ">> \o b \o <<" ">> \o c \o
            <<" ">> \o d \o <<"?">> :
          a \in income, b \in sales, c \in margin, d \in change}
       \cup {<<"W", "h", "a", "t", " ", "w", "a", "s", " ", "t", "h", "e",
                " ", "y", "e", "a", "r", "-", "o", "v", "e", "r", "-", "y",
                "e", "a", "r", " ", "c", "h", "a", "n", "g", "e", " ", "i",
                "n", " ", "r", "e", "v", "e", "n", "u", "e", "?">>}

InitPlan ==
    /\ dag = <<>>
    /\ answered = {}
    /\ readyOut = <<>>
    /\ iters = 0
    /\ loopDone = FALSE
    /\ backend = FALSE
    /\ \E q \in PlanQuestions : FreshState(q, EmptyMap)
    /\ active = {}
    /\ triggered = {}
    /\ status = "done"
    /\ turn = 0
    /\ call = NoneV
    /\ result = NoneV

\* plan = heuristic_plan(question)
PlanCall ==
    /\ dag = <<>>
    /\ dag' = heuristic_plan(query)
    /\ UNCHANGED loopVars
    /\ UNCHANGED flowVars
    /\ UNCHANGED <<turn, call, result>>

SpecPlan == InitPlan /\ [][PlanCall]_vars

----------------------------------------------------------------------------
(* SpecRun: PlanRAGRunner.run on a question of PlanQuestions: the plan of    *)
(* heuristic_plan, then the ready / batch loop on it.                        *)

NextRun ==
    \/ PlanCall
    \/ (dag # <<>> /\ LoopBreak)
    \/ (dag # <<>> /\ LoopIter)

SpecRun == InitPlan /\ [][NextRun]_vars

----------------------------------------------------------------------------
(* Spec: one turn of the workflow build_graph compiles.  The engine runs in  *)
(* supersteps: the nodes scheduled for a step run concurrently on the shared *)
(* state, every edge of a node that returns schedules its target for the     *)
(* next step.  batch has the conditional edge of router_batch and the plain  *)
(* edge to compute, so both targets are scheduled whenever batch returns.    *)

InitMemories == {EmptyMap, [k \in {"period"} |-> <<"2", "0", "1", "9">>]}

Init ==
    /\ dag = <<>>
    /\ answered = {}
    /\ readyOut = <<>>
    /\ iters = 0
    /\ loopDone = FALSE
    /\ backend \in BOOLEAN
    /\ \E q \in Questions, m \in InitMemories : FreshState(q, m)
    /\ active = {"resolve"}
    /\ triggered = {}
    /\ status = "running"
    /\ turn = 1
    /\ call = NoneV
    /\ result = NoneV

Bump(n) == IF n < RunCap THEN n + 1 ELSE n

\* is_complete(state)
is_complete(d, ans) == d # <<>> /\ NodeIds(d) \subseteq DOMAIN ans

\* router_after_planner(state)
router_after_planner(d, ans) == IF is_complete(d, ans) THEN "final" ELSE "batch"

\* router_batch(state)
router_batch(d, ans) == IF is_complete(d, ans) THEN "final" ELSE "batch"

\* a scheduled node starts
Runs(node) == status = "running" /\ node \in active

\* a node returns the state: its edges schedule their targets
Returns(node, targets) ==
    /\ active' = active \ {node}
    /\ triggered' = triggered \cup targets
    /\ returned' = returned \cup {node}

\* an exception leaves the node: the turn ends with it
Raises(what) ==
    /\ status' = "crashed"
    /\ error' = what

\* resolve_node
Resolve ==
    /\ Runs("resolve")
    /\ \E r \in call_resolver(backend, query) :
          IF r.ok
          THEN /\ query' = r.rewritten
               /\ memory' = merge_memory(memory, r.memory_updates)
               /\ Returns("resolve", {"planner"})
               /\ UNCHANGED <<status, error>>
          ELSE /\ Raises("malformed")
               /\ UNCHANGED <<query, memory, active, triggered, returned>>
    /\ UNCHANGED <<dag, loopVars, backend, answers, retrieved, final_answer,
                   validation, inBatch, batch, solved, merged, hist>>
    /\ UNCHANGED <<turn, call, result>>

\* planner_node, then router_after_planner
Planner ==
    /\ Runs("planner")
    /\ \E p \in call_planner(backend, query) : dag' = p
    /\ Returns("planner", {router_after_planner(dag', answers)})
    /\ UNCHANGED <<loopVars, backend, query, memory, answers, retrieved,
                   final_answer, validation, status, error, inBatch, batch,
                   solved, merged, hist>>
    /\ UNCHANGED <<turn, call, result>>

\* chat.invoke raises (network, quota) in a node that does not catch it
ChatRaises ==
    /\ backend
    /\ \E node \in {"resolve", "final", "validate"} :
          /\ Runs(node)
          /\ Raises(node)
    /\ UNCHANGED <<dag, loopVars, backend, query, memory, answers, retrieved,
                   final_answer, validation, active, triggered, returned,
                   inBatch, batch, solved, merged, hist>>
    /\ UNCHANGED <<turn, call, result>>

\* _solve(node): the parents it reads now, and any result retrieval and
\* generation can give; ok is FALSE when one of the two calls raised
Solve(node) ==
    LET parents == Restrict(answers, node.depends_on)
    IN {[ok |-> TRUE, parents |-> parents, snips |-> Snippets(hits),
         ans |-> a] :
           <<hits, a>> \in
              UNION {{<<h, g>> : g \in call_generator(backend, Snippets(h))} :
                        h \in RetrieverQuery(node.text)}}
       \cup {[ok |-> FALSE, parents |-> parents, snips |-> <<>>, ans |-> <<>>]}

UsesPool == MaxWorkers > 0 /\ Len(batch) > 1

Count(w, id) == IF id \in DOMAIN w THEN w[id] ELSE 0

\* a merge that writes into the copies taken when the batch started
RecordOverSnapshot(nid, res) ==
    /\ retrieved' = Put(hist.startRetrieved, nid, res.snips)
    /\ answers' = Put(hist.startAnswers, nid, res.ans)
    /\ merged' = merged \cup {nid}
    /\ hist' = [hist EXCEPT !.writes = Put(@, nid, Bump(Count(@, nid))),
                             !.order = Append(@, nid)]

\* state.retrieved[nid] = sn; state.answers[nid] = an
Record(nid, res) ==
    /\ retrieved' = Put(retrieved, nid, res.snips)
    /\ answers' = Put(answers, nid, res.ans)
    /\ merged' = merged \cup {nid}
    /\ hist' = [hist EXCEPT !.writes = Put(@, nid, Bump(Count(@, nid))),
                             !.order = Append(@, nid)]

\* batch_node finds nothing ready and returns the state as it is
BatchReturnEmpty ==
    /\ Runs("batch")
    /\ ~inBatch
    /\ Ready(dag, DOMAIN answers) = <<>>
    /\ Returns("batch", {"compute", router_batch(dag, answers)})
    /\ hist' = [hist EXCEPT
                  !.stalledRuns = IF is_complete(dag, answers) THEN @
                                  ELSE Bump(@),
                  !.batchAfterCompute = @ \/ hist.computeRuns > 0]
    /\ UNCHANGED <<dag, loopVars, backend, query, memory, answers, retrieved,
                   final_answer, validation, status, error, inBatch, batch,
                   solved, merged>>
    /\ UNCHANGED <<turn, call, result>>

\* batch_node picks the minimum-depth batch of the ready nodes
BatchStart ==
    /\ Runs("batch")
    /\ ~inBatch
    /\ Ready(dag, DOMAIN answers) # <<>>
    /\ inBatch' = TRUE
    /\ batch' = Ids(BatchOf(Ready(dag, DOMAIN answers)))
    /\ solved' = EmptyMap
    /\ merged' = {}
    /\ hist' = [hist EXCEPT
                  !.startAnswers = answers,
                  !.startRetrieved = retrieved,
                  !.order = <<>>,
                  !.computedInBatch = FALSE,
                  !.batchAfterCompute = @ \/ hist.computeRuns > 0]
    /\ UNCHANGED <<dag, loopVars, backend, query, memory, answers, retrieved,
                   final_answer, validation, active, triggered, returned,
                   status, error>>
    /\ UNCHANGED <<turn, call, result>>

\* a pool worker runs _solve(n) for a node of the batch
WorkerSolve ==
    /\ status = "running"
    /\ inBatch
    /\ UsesPool
    /\ \E nid \in Range(batch) \ DOMAIN solved :
          \E res \in Solve(NodeOf(dag, nid)) : solved' = Put(solved, nid, res)
    /\ UNCHANGED <<dag, loopVars, backend, query, memory, answers, retrieved,
                   final_answer, validation, active, triggered, returned,
                   status, error, inBatch, batch, merged, hist>>
    /\ UNCHANGED <<turn, call, result>>

\* the as_completed loop takes a finished future: fut.result() and the writes
MergeResult ==
    /\ status = "running"
    /\ inBatch
    /\ UsesPool
    /\ \E nid \in DOMAIN solved \ merged :
          IF solved[nid].ok
          THEN /\ Record(nid, solved[nid])
               /\ UNCHANGED <<status, error>>
          ELSE /\ Raises("solve")
               /\ UNCHANGED <<answers, retrieved, merged, hist>>
    /\ UNCHANGED <<dag, loopVars, backend, query, memory, final_answer,
                   validation, active, triggered, returned, inBatch, batch,
                   solved>>
    /\ UNCHANGED <<turn, call, result>>

\* the sequential loop: _solve(n) for the next node of the batch and the writes
SolveInline ==
    /\ status = "running"
    /\ inBatch
    /\ ~UsesPool
    /\ \E i \in 1..Len(batch) :
          /\ batch[i] \notin merged
          /\ \A j \in 1..(i - 1) : batch[j] \in merged
          /\ \E res \in Solve(NodeOf(dag, batch[i])) :
                /\ solved' = Put(solved, batch[i], res)
                /\ IF res.ok
                   THEN /\ Record(batch[i], res)
                        /\ UNCHANGED <<status, error>>
                   ELSE /\ Raises("solve")
                        /\ UNCHANGED <<answers, retrieved, merged, hist>>
    /\ UNCHANGED <<dag, loopVars, backend, query, memory, final_answer,
                   validation, active, triggered, returned, inBatch, batch>>
    /\ UNCHANGED <<turn, call, result>>

\* the end of batch_node: the memory update from the answer of "1.1", the
\* return, then router_batch
BatchEnd ==
    /\ status = "running"
    /\ inBatch
    /\ merged = Range(batch)
    /\ memory' = IF "1.1" \in DOMAIN answers
                 THEN merge_memory(memory, GroundingUpdates(answers["1.1"]))
                 ELSE memory
    /\ inBatch' = FALSE
    /\ batch' = <<>>
    /\ solved' = EmptyMap
    /\ merged' = {}
    /\ Returns("batch", {"compute", router_batch(dag, answers)})
    /\ hist' = [hist EXCEPT
                  !.startAnswers = EmptyMap,
                  !.startRetrieved = EmptyMap,
                  !.order = <<>>,
                  !.computedInBatch = FALSE]
    /\ UNCHANGED <<dag, loopVars, backend, query, answers, retrieved,
                   final_answer, validation, status, error>>
    /\ UNCHANGED <<turn, call, result>>

\* compute_node would still change answers["3.1"]
ComputePending(ans) ==
    /\ ~ComputeRaises(ans)
    /\ \E computed \in {maybe_compute_change(ans)} :
          computed.some /\ ans["3.1"] # computed.v

\* compute_node
Compute ==
    /\ Runs("compute")
    /\ IF ComputeRaises(answers)
       THEN /\ Raises("compute")
            /\ UNCHANGED <<answers, active, triggered, returned>>
       ELSE /\ \E computed \in {maybe_compute_change(answers)} :
                  answers' = IF computed.some
                             THEN Put(answers, "3.1", computed.v)
                             ELSE answers
            /\ Returns("compute", {"final"})
            /\ UNCHANGED <<status, error>>
    /\ hist' = [hist EXCEPT
                  !.computeRuns = Bump(@),
                  !.computedInBatch = @ \/ (inBatch /\ answers' # answers)]
    /\ UNCHANGED <<dag, loopVars, backend, query, memory, retrieved,
                   final_answer, validation, inBatch, batch, solved, merged>>
    /\ UNCHANGED <<turn, call, result>>

\* final_node
Final ==
    /\ Runs("final")
    /\ \E t \in (IF answers # EmptyMap
                 THEN call_aggregator(backend, query, answers)
                 ELSE {NoAnswer}) : final_answer' = Some(t)
    /\ Returns("final", {"validate"})
    /\ hist' = [hist EXCEPT
                  !.finalRuns = Bump(@),
                  !.finalBeforeCompute = @ \/ hist.computeRuns = 0,
                  !.finalAhead = @ \/ "compute" \in active \cup triggered
                                   \/ ComputePending(answers)]
    /\ UNCHANGED <<dag, loopVars, backend, query, memory, answers, retrieved,
                   validation, status, error, inBatch, batch, solved, merged>>
    /\ UNCHANGED <<turn, call, result>>

\* a validate_node that takes any non-empty corrected text, whatever the
\* verdict (used to show C13 depends on the verdict test)
ApplyAnyCorrection(res, final) ==
    IF res.corrected # <<>> THEN Some(res.corrected) ELSE final

\* validate_node's branch: the final answer after the validator returned res
ApplyCorrection(res, final) ==
    IF res.verdict = Fail /\ res.corrected # <<>>
    THEN Some(res.corrected)
    ELSE final

\* validate_node
Validate ==
    /\ Runs("validate")
    /\ \E res \in call_validator(backend) :
          IF res.ok
          THEN /\ validation' = [k \in DOMAIN res \ {"ok"} |-> res[k]]
               /\ final_answer' = ApplyCorrection(res, final_answer)
               /\ Returns("validate", {})
               /\ UNCHANGED <<status, error>>
          ELSE /\ Raises("malformed")
               /\ UNCHANGED <<validation, final_answer, active, triggered,
                              returned>>
    /\ hist' = [hist EXCEPT !.validateRuns = Bump(@)]
    /\ UNCHANGED <<dag, loopVars, backend, query, memory, answers, retrieved,
                   inBatch, batch, solved, merged>>
    /\ UNCHANGED <<turn, call, result>>

\* every node of the superstep has returned: the next superstep starts
Advance ==
    /\ status = "running"
    /\ active = {}
    /\ triggered # {}
    /\ active' = triggered
    /\ triggered' = {}
    /\ returned' = {}
    /\ UNCHANGED <<dag, loopVars, backend, query, memory, answers, retrieved,
                   final_answer, validation, status, error, inBatch, batch,
                   solved, merged, hist>>
    /\ UNCHANGED <<turn, call, result>>

\* two nodes of one superstep returned the whole state: GraphState declares
\* no reducer for any field, and the engine may refuse the second value
StepConflict ==
    /\ status = "running"
    /\ active = {}
    /\ Cardinality(returned) > 1
    /\ Raises("conflict")
    /\ UNCHANGED <<dag, loopVars, backend, query, memory, answers, retrieved,
                   final_answer, validation, active, triggered, returned,
                   inBatch, batch, solved, merged, hist>>
    /\ UNCHANGED <<turn, call, result>>

\* nothing is scheduled: the edge to END has been taken
Finish ==
    /\ status = "running"
    /\ active = {}
    /\ triggered = {}
    /\ status' = "done"
    /\ UNCHANGED <<dag, loopVars, backend, query, memory, answers, retrieved,
                   final_answer, validation, active, triggered, returned,
                   error, inBatch, batch, solved, merged, hist>>
    /\ UNCHANGED <<turn, call, result>>

Next ==
    \/ Resolve
    \/ Planner
    \/ ChatRaises
    \/ BatchReturnEmpty
    \/ BatchStart
    \/ WorkerSolve
    \/ MergeResult
    \/ SolveInline
    \/ BatchEnd
    \/ Compute
    \/ Final
    \/ Validate
    \/ Advance
    \/ StepConflict
    \/ Finish

Spec == Init /\ [][Next]_vars

----------------------------------------------------------------------------
(* SpecRepl: the read-eval-print loop of main.repl.  Every turn invokes the  *)
(* compiled workflow on a new GraphState that carries the question typed and *)
(* the memory of the turn before; an exception of a turn leaves the loop.    *)

\* turns of one REPL session
MaxTurns == 2

\* memory = {}; q = input("you> ").strip(); app_graph.invoke(GraphState(...))
InitRepl ==
    /\ dag = <<>>
    /\ answered = {}
    /\ readyOut = <<>>
    /\ iters = 0
    /\ loopDone = FALSE
    /\ backend = FALSE
    /\ \E q \in Questions : FreshState(q, EmptyMap)
    /\ active = {"resolve"}
    /\ triggered = {}
    /\ status = "running"
    /\ turn = 1
    /\ call = NoneV
    /\ result = NoneV

\* a REPL that starts every turn with an empty memory
ForgetMemory(m) == EmptyMap

\* memory = dict(result.memory or {}): a copy of the turn's final memory, and
\* {} when that is None or empty
CarryMemory(m) == IF m = EmptyMap THEN EmptyMap ELSE [k \in DOMAIN m |-> m[k]]

\* memory = dict(result.memory or {}), the next question is read and
\* app_graph.invoke(GraphState(query = q, memory = memory)) starts
ReplTurn ==
    /\ status = "done"
    /\ turn < MaxTurns
    /\ turn' = turn + 1
    /\ \E q \in Questions : query' = q
    /\ memory' = CarryMemory(memory)
    /\ dag' = <<>>
    /\ answers' = EmptyMap
    /\ retrieved' = EmptyMap
    /\ final_answer' = NoneV
    /\ validation' = EmptyMap
    /\ active' = {"resolve"}
    /\ triggered' = {}
    /\ returned' = {}
    /\ status' = "running"
    /\ hist' = NoHistory
    /\ UNCHANGED <<loopVars, backend, error, inBatch, batch, solved, merged,
                   call, result>>

\* the steps of a turn without an API key, and the step to the next turn
NextRepl ==
    \/ Resolve
    \/ Planner
    \/ BatchStart
    \/ WorkerSolve
    \/ MergeResult
    \/ SolveInline
    \/ BatchEnd
    \/ Compute
    \/ Final
    \/ Validate
    \/ Advance
    \/ StepConflict
    \/ Finish
    \/ ReplTurn

SpecRepl == InitRepl /\ [][NextRepl]_vars

----------------------------------------------------------------------------
(* The scorer of the evaluation (src/src/metrics.py) *)

\* _to_float(s): the whole of s as a number, None when it is not one
to_float(s) ==
    Bind(Remove(Remove(Strip(s), ","), "$"), LAMBDA t0 :
      IF t0 = <<>> THEN NoneV
      ELSE Bind(IF EndsWith(t0, <<"%">>)
                THEN Strip(SubSeq(t0, 1, Len(t0) - 1)) ELSE t0, LAMBDA t1 :
             FloatOf(Strip(IF StartsWith(t1, <<"(">>) /\ EndsWith(t1, <<")">>)
                           THEN <<"-">> \o SubSeq(t1, 2, Len(t1) - 1)
                           ELSE t1))))

\* abs(p - g) <= abs_tol, or abs(p - g) / max(1e-9, abs(g)) <= rel_tol, with
\* abs_tol = 1e-4 and rel_tol = 0.01.  A gold value of the model is 0 or at
\* least 1e-9 in size; with g = 0 the second test asks abs(p) <= 1e-11, which
\* fails once the first test has failed
WithinTolerance(p, g) ==
    Bind(Frac(Abs(p.n * g.d - g.n * p.d), p.d * g.d), LAMBDA diff :
      \/ diff.n <= diff.d \div 10000
      \/ /\ g.n # 0
         /\ 100 * diff.n * g.d <= diff.d * Abs(g.n))

\* numeric_match(pred, gold)
numeric_match(pred, gold) ==
    Bind(<<to_float(pred), to_float(gold)>>, LAMBDA pg :
      IF ~pg[1].some \/ ~pg[2].some
      THEN Lower(Strip(pred)) = Lower(Strip(gold))
      ELSE WithinTolerance(pg[1].v, pg[2].v))

----------------------------------------------------------------------------
(* Reciprocal rank fusion (src/src/hybrid_retrieval.py).  A retriever is its *)
(* chunk list; a call carries the two rankings the dense store and BM25 give *)
(* for the query, which the text of the query does not fix.  A dense hit has *)
(* the text of a stored document and, when the retriever was built with      *)
(* metadatas that carry it, the chunk_id of that document (0: it has none).  *)
(* Chunk indices count from 1.                                               *)

\* most chunks of a retriever
MaxChunks == 3

\* the least common multiple of 61, ..., 60 + r
RECURSIVE RrfScaleTo(_)
RrfScaleTo(r) ==
    IF r = 0 THEN 1
    ELSE (RrfScaleTo(r - 1) \div Gcd(RrfScaleTo(r - 1), 60 + r)) * (60 + r)

\* scores are kept as multiples of 1 / RrfScale, which every 1 / (60 + rank)
\* of a ranking of the model is (a dense ranking may hold one document more
\* than there are chunks)
RrfScale == RrfScaleTo(MaxChunks + 1)

\* rrf(rank, k_rrf = 60) = 1.0 / (k_rrf + rank)
rrf(rank) == RrfScale \div (60 + rank)

\* self.chunks.index(text), 0 for the ValueError of a text that is no chunk
ChunkIndex(chunks, text) ==
    IF \E i \in 1..Len(chunks) : chunks[i] = text
    THEN CHOOSE i \in 1..Len(chunks) :
             /\ chunks[i] = text
             /\ \A j \in 1..(i - 1) : chunks[j] # text
    ELSE 0

\* the chunk a dense hit is credited to: its chunk_id, else the first chunk
\* with its text
HitChunk(chunks, h) ==
    IF h.chunk_id # 0 THEN h.chunk_id ELSE ChunkIndex(chunks, h.text)

\* fused[ci] = fused.get(ci, 0.0) + rrf(r); fused is a dict, kept here as
\* the sequence of its items in insertion order
Credit(fused, ci, r) ==
    IF \E i \in 1..Len(fused) : fused[i].ci = ci
    THEN [i \in 1..Len(fused) |->
             IF fused[i].ci = ci
             THEN [ci |-> ci, score |-> fused[i].score + rrf(r)]
             ELSE fused[i]]
    ELSE Append(fused, [ci |-> ci, score |-> rrf(r)])

\* one of the two loops over a ranking: cis[r] is the chunk ranked r, 0 for a
\* dense hit that is skipped (its rank is spent all the same)
RECURSIVE FuseRanks(_, _, _)
FuseRanks(fused, cis, r) ==
    IF r > Len(cis) THEN fused
    ELSE FuseRanks(IF cis[r] = 0 THEN fused ELSE Credit(fused, cis[r], r),
                   cis, r + 1)

\* sorted(fused.items(), key = score, reverse = True): stable, best first
RECURSIVE SortByScore(_)
SortByScore(items) ==
    IF items = <<>> THEN <<>>
    ELSE LET rest == SortByScore(SubSeq(items, 1, Len(items) - 1))
             x    == items[Len(items)]
             k    == Cardinality({i \in 1..Len(rest) : rest[i].score >= x.score})
         IN SubSeq(rest, 1, k) \o <<x>> \o SubSeq(rest, k + 1, Len(rest))

\* the items of fused that query returns, best first: at most k
FusedTop(c) ==
    Bind(FuseRanks(FuseRanks(<<>>,
                             [r \in 1..Len(c.dense) |->
                                 HitChunk(c.chunks, c.dense[r])], 1),
                   c.sparse, 1), LAMBDA fused :
      Bind(SortByScore(fused), LAMBDA top :
        SubSeq(top, 1, Min(c.args[2], Len(top)))))

\* HybridRetriever.query(q, k): [(self.chunks[i], score) for i, score in top]
hybrid_query(c) ==
    IF Strip(c.args[1]) = <<>> THEN <<>>
    ELSE Bind(FusedTop(c), LAMBDA top :
           [i \in 1..Len(top) |->
               [text |-> c.chunks[top[i].ci],
                score |-> [n |-> top[i].score, d |-> RrfScale]]])

\* the orders of 1..n
Orders(n) == {p \in [1..n -> 1..n] : \A i, j \in 1..n : p[i] = p[j] => i = j}

\* chunk lists of the model: one to MaxChunks texts, which may repeat
ChunkLists == UNION {[1..n -> {<<"A">>, <<"B">>}] : n \in 1..MaxChunks}

\* the dense rankings of a store that holds the chunks (all with their
\* chunk_id when withIds, all without otherwise), in any order, and in front
\* of them, when stale, a document of an earlier collection of the same name
DenseRankings(chunks, withIds) ==
    {(IF stale
      THEN <<[text |-> <<"Z">>, chunk_id |-> 0, doc |-> 0]>>
      ELSE <<>>) \o
     [r \in 1..Len(chunks) |->
         [text |-> chunks[p[r]],
          chunk_id |-> IF withIds THEN p[r] ELSE 0,
          doc |-> p[r]]] :
        p \in Orders(Len(chunks)), stale \in BOOLEAN}

\* the BM25 rankings: every chunk, best score first; chunks with one text
\* have one score and stay in index order
SparseRankings(chunks) ==
    {p \in Orders(Len(chunks)) :
        \A i, j \in 1..Len(chunks) :
            (i < j /\ chunks[p[i]] = chunks[p[j]]) => p[i] < p[j]}

\* query(q, k) for a blank and a non-blank q, k = 2 and the default k = 6
QueryCalls ==
    UNION {{[fn |-> "query", args |-> <<q, k>>, chunks |-> chunks,
             dense |-> dense, sparse |-> sparse] :
               q \in {<<" ">>, <<"q">>}, k \in {2, 6},
               dense \in DenseRankings(chunks, TRUE)
                            \cup DenseRankings(chunks, FALSE),
               sparse \in SparseRankings(chunks)} : chunks \in ChunkLists}

----------------------------------------------------------------------------
(* SpecCalls: one call of a library function on arguments out of a bounded  *)
(* family: parse_number, numeric_match, HybridRetriever.query.               *)

\* texts around a number: a sign, parentheses, grouping, a fraction, a percent
\* sign, and texts with no number in them
NumberTexts ==
    LET sign  == {<<>>, <<"-">>, <<"+">>}
        open  == {<<>>, <<"(">>}
        body  == {<<"5">>, <<"1", "2">>, <<"1", "2", "3", "4">>,
                  <<"1", ",", "2", "3", "4">>, <<"1", "2", ".", "5">>,
                  <<"1", ",", "2", "3", "4", ".", "5", "0">>,
                  <<"f", "o", "o">>, <<>>}
        close == {<<>>, <<")">>}
        pct   == {<<>>, <<"%">>}
    IN {s \o o \o b \o c \o p :
          s \in sign, o \in open, b \in body, c \in close, p \in pct}

\* predictions and gold answers handed to the scorer
MatchTexts ==
    {    <<"$", "1", ",", "2", "3", "4">>,
         <<"1", "2", "3", "4", ".", "0">>,
         <<"1", "0", "%">>,
         <<"0", ".", "1", "0">>,
         <<"f", "o", "o">>,
         <<"b", "a", "r">>,
         <<"F", "o", "o">>,
         <<" ", "f", "o", "o", " ">>,
         <<"1", "0">>,
         <<"(", "5", ")">>,
         <<"-", "5">>,
         <<"1", "0", "0">>,
         <<"1", "0", "1">>,
         <<"1", "0", "2">>,
         <<"0">>,
         <<"1", "2", "3", "4">>,
         <<"1", ",", "2", "3", "4">>,
         <<>>,
         <<"%">>,
         <<"(", "5", " ", ")">>}

Calls ==
    {[fn |-> "parse_number", args |-> <<s>>] : s \in NumberTexts}
    \cup {[fn |-> "numeric_match", args |-> <<p, g>>] :
            p \in MatchTexts, g \in MatchTexts}
    \cup QueryCalls

InitCalls ==
    /\ dag = <<>>
    /\ answered = {}
    /\ readyOut = <<>>
    /\ iters = 0
    /\ loopDone = FALSE
    /\ NoTurn
    /\ call \in {Some(c) : c \in Calls}
    /\ result = NoneV

\* the pending call is one of fn
Pending(fn) == call.some /\ call.v.fn = fn /\ ~result.some

\* parse_number(s) returns
ParseNumberCall ==
    /\ Pending("parse_number")
    /\ result' = Some(parse_number(call.v.args[1]))
    /\ UNCHANGED <<dag, loopVars, flowVars, turn, call>>

\* numeric_match(pred, gold) returns
NumericMatchCall ==
    /\ Pending("numeric_match")
    /\ result' = Some(numeric_match(call.v.args[1], call.v.args[2]))
    /\ UNCHANGED <<dag, loopVars, flowVars, turn, call>>

\* HybridRetriever.query(q, k) returns
QueryCall ==
    /\ Pending("query")
    /\ result' = Some(hybrid_query(call.v))
    /\ UNCHANGED <<dag, loopVars, flowVars, turn, call>>

NextCalls ==
    \/ ParseNumberCall
    \/ NumericMatchCall
    \/ QueryCall

SpecCalls == InitCalls /\ [][NextCalls]_vars

----------------------------------------------------------------------------
(* Claims about PlanDAG.ready and the plain loop *)

\* C1 (as stated): for any acyclic plan graph (every parent a node) the loop
\* ends with every node answered after at most max_depth() iterations
C1_AcyclicWithinMaxDepth ==
    (Acyclic(dag) /\ NoDangling(dag)) =>
        /\ iters <= max_depth(dag)
        /\ loopDone => answered = NodeIds(dag)

\* C1 (amended): when every parent is a node of strictly lower depth, the loop
\* never runs more than max_depth() iterations and ends with every node answered
C1_StrictDepthsWithinMaxDepth ==
    StrictDepths(dag) =>
        /\ iters <= max_depth(dag)
        /\ loopDone => answered = NodeIds(dag)
        /\ ~loopDone => (Ready(dag, answered) # <<>> \/ answered = NodeIds(dag))

C1_Witness ==
    /\ StrictDepths(dag)
    /\ loopDone
    /\ Len(dag) = 3
    /\ iters = 2
    /\ iters = max_depth(dag)
    /\ \E i \in 1..Len(dag) : dag[i].depends_on # {}

\* C5: ready returns exactly the unanswered nodes whose parents are all
\* answered, each once, ordered by depth and then by id as strings
C5_ReadyExactAndSorted ==
    /\ Range(readyOut) =
          {id \in NodeIds(dag) :
              id \notin answered /\ NodeOf(dag, id).depends_on \subseteq answered}
    /\ Cardinality(Range(readyOut)) = Len(readyOut)
    /\ \A i, j \in 1..Len(readyOut) :
          i < j =>
             LET m == NodeOf(dag, readyOut[i])
                 n == NodeOf(dag, readyOut[j])
             IN \/ m.depth < n.depth
                \/ /\ m.depth = n.depth
                   /\ StrLess(IdChars(m.id), IdChars(n.id))

\* a call that returns "2.10" before "2.9" at one depth, after a call with a
\* non-empty answered set
C5_Witness ==
    /\ answered # {}
    /\ \E i \in 1..Len(readyOut) :
          /\ i < Len(readyOut)
          /\ readyOut[i] = "2.10"
          /\ readyOut[i + 1] = "2.9"
          /\ NodeOf(dag, "2.10").depth = NodeOf(dag, "2.9").depth
          /\ NodeOf(dag, "2.9").depends_on # {}

\* C6: answered only grows, and an id already in answered is not returned by
\* the next ready call (hence by no later one)
C6_ReadyMonotonic ==
    [][/\ answered \subseteq answered'
       /\ \A id \in answered : id \notin Range(readyOut')]_vars

\* a node that ready returned, was then answered, and is absent from the
\* current result although its parents are still all answered
C6_Witness ==
    \E id \in answered \cap NodeIds(dag) :
        /\ NodeOf(dag, id).depends_on \subseteq answered
        /\ id \notin Range(readyOut)
        /\ readyOut # <<>>

----------------------------------------------------------------------------
(* Claims about the workflow *)

\* C2: on a stalled plan graph the batch loop ends: the batch step that finds
\* nothing ready is not executed over and over
C2_StalledBatchLoopEnds == hist.stalledRuns <= 1

\* C3: a node's solve step starts only when every id of its depends_on has an
\* entry in answers
C3_SolveAfterParents ==
    [][\A nid \in DOMAIN solved' \ DOMAIN solved :
          NodeOf(dag, nid).depends_on \subseteq DOMAIN answers]_vars

\* a pool worker has solved a node with parents while another node of the
\* batch is still unsolved
C3_Witness ==
    /\ inBatch
    /\ UsesPool
    /\ Range(batch) \ DOMAIN solved # {}
    /\ \E nid \in DOMAIN solved :
          /\ NodeOf(dag, nid).depends_on # {}
          /\ solved[nid].ok
          /\ DOMAIN solved[nid].parents = NodeOf(dag, nid).depends_on

\* C4: the compute step runs exactly once per question, after the last batch
\* step and before the final step, and the final step never reads answers the
\* compute step has still to process
C4_ComputeOnceBetweenLoopAndFinal ==
    /\ hist.computeRuns <= 1
    /\ ~hist.batchAfterCompute
    /\ ~hist.finalBeforeCompute
    /\ ~hist.finalAhead
    /\ status = "done" => hist.computeRuns = 1

\* C7: for the scenario question on the two-cell revenue table the plan has a
\* node "3.1" and, once the compute step has run and the turn is over,
\* answers["3.1"] is "20 (25.00%)"
C7_ScenarioChange ==
    (/\ query = ScenarioQuestion
     /\ dag = heuristic_plan(ScenarioQuestion)
     /\ hist.computeRuns > 0
     /\ status = "done") =>
        /\ "3.1" \in NodeIds(dag)
        /\ "3.1" \in DOMAIN answers
        /\ answers["3.1"] =
              <<"2", "0", " ", "(", "2", "5", ".", "0", "0", "%", ")">>

\* C8: the batch step writes no node id more than once, every answers key was
\* written by the batch step, and a completed plan has each node written once
C8_EachNodeSolvedOnce ==
    /\ \A nid \in DOMAIN hist.writes : hist.writes[nid] = 1
    /\ DOMAIN answers = DOMAIN hist.writes
    /\ DOMAIN retrieved = DOMAIN hist.writes
    /\ DOMAIN hist.writes \subseteq NodeIds(dag)
    /\ (status = "done" /\ is_complete(dag, answers)) =>
          DOMAIN hist.writes = NodeIds(dag)

\* a finished turn whose plan was completed in three batches
C8_Witness ==
    /\ status = "done"
    /\ is_complete(dag, answers)
    /\ Len(dag) = 4
    /\ max_depth(dag) = 3

\* the maps after solving the nodes ids one after the other, from m
RECURSIVE SolveInOrder(_, _, _)
SolveInOrder(m, ids, results) ==
    IF ids = <<>> THEN m
    ELSE SolveInOrder(Put(m, Head(ids), results[Head(ids)]), Tail(ids), results)

\* C9: when all results of a batch are merged, answers and retrieved are what
\* solving the batch in sorted ready order with the same per-node results
\* gives, whatever the order of completion, and every node read its parents
\* as they were when the batch started (a write of compute_node to "3.1"
\* during the batch aside)
C9_BatchOrderIndependent ==
    (inBatch /\ merged = Range(batch)) =>
        LET seqAnswers == SolveInOrder(hist.startAnswers, batch,
                                       [n \in DOMAIN solved |-> solved[n].ans])
            seqRetrieved == SolveInOrder(hist.startRetrieved, batch,
                                         [n \in DOMAIN solved |-> solved[n].snips])
        IN /\ retrieved = seqRetrieved
           /\ DOMAIN answers = DOMAIN seqAnswers
           /\ \A k \in DOMAIN answers :
                 \/ answers[k] = seqAnswers[k]
                 \/ k = "3.1" /\ hist.computedInBatch
           /\ \A n \in DOMAIN solved :
                 /\ DOMAIN solved[n].parents \subseteq DOMAIN hist.startAnswers
                 /\ \A k \in DOMAIN solved[n].parents :
                       \/ solved[n].parents[k] = hist.startAnswers[k]
                       \/ k = "3.1" /\ hist.computedInBatch

\* a pool batch merged in another order than the sorted one, with different
\* answers for its first two nodes and earlier answers in the state
C9_Witness ==
    /\ inBatch
    /\ UsesPool
    /\ merged = Range(batch)
    /\ hist.order # batch
    /\ hist.startAnswers # EmptyMap
    /\ solved[batch[1]].ans # solved[batch[2]].ans
    /\ solved[batch[1]].snips # solved[batch[2]].snips

\* C10: a retrieval or generation call that fails for one node does not end
\* the turn with the exception: the node gets an empty answer and the batch
\* goes on
C10_SolveFailureContained ==
    /\ error # "solve"
    /\ \A nid \in DOMAIN solved :
          (~solved[nid].ok /\ nid \in merged) =>
              (nid \in DOMAIN answers /\ answers[nid] = <<>>)

----------------------------------------------------------------------------
(* Claims about batch selection, the compute step and the end of the turn *)

\* C11: an iteration executes exactly the ready nodes of the minimum depth
\* present in ready; a ready node of a greater depth is left for a later one
C11_OnlyMinimumDepthRuns ==
    [][iters' = iters + 1 =>
          LET ran == answered' \ answered
              low == CHOOSE m \in {NodeOf(dag, id).depth : id \in Range(readyOut')} :
                         \A id \in Range(readyOut') : m <= NodeOf(dag, id).depth
          IN /\ ran \subseteq Range(readyOut')
             /\ \A id \in Range(readyOut') :
                   id \in ran <=> NodeOf(dag, id).depth = low]_vars

\* after the first iteration a node of a greater depth that was ready at the
\* same time (it has no parents) is still unanswered
C11_Witness ==
    /\ iters = 1
    /\ answered # {}
    /\ \E id \in Range(readyOut) \ answered :
          /\ NodeOf(dag, id).depends_on = {}
          /\ \A a \in answered : NodeOf(dag, a).depth < NodeOf(dag, id).depth

\* C12: the compute step changes at most answers["3.1"].  When "3.1" is a key
\* and the two first "2." keys by integer path both parse as numbers, the new
\* answers["3.1"] is format_change(compute_change(first, second)); otherwise
\* answers stays as it is.  retrieved, memory and the plan graph never change.
C12_ComputeFrame ==
    [][("compute" \in active /\ "compute" \notin active') =>
          /\ dag' = dag /\ retrieved' = retrieved /\ memory' = memory
          /\ DOMAIN answers' = DOMAIN answers
          /\ \A k \in DOMAIN answers \ {"3.1"} : answers'[k] = answers[k]
          /\ LET M == MetricKeys(answers)
                 firstTwo ==
                     {<<x, y>> \in M \X M :
                         /\ TupleLess(IntPath(x), IntPath(y))
                         /\ \A z \in M \ {x, y} : TupleLess(IntPath(y), IntPath(z))}
             IN IF /\ "3.1" \in DOMAIN answers
                   /\ \E f \in firstTwo :
                         /\ parse_number(answers[f[1]]).some
                         /\ parse_number(answers[f[2]]).some
                THEN \A f \in firstTwo :
                        LET r == compute_change(parse_number(answers[f[1]]).v,
                                                parse_number(answers[f[2]]).v)
                        IN answers'["3.1"] = format_change(r.delta, r.pct)
                ELSE answers' = answers]_vars

\* the compute step has overwritten "3.1" from the answers 80 of "2.9" and 100
\* of "2.10": "2.9" comes first by integer path, "2.10" first as a string
C12_Witness ==
    /\ hist.computeRuns > 0
    /\ {"2.9", "2.10", "3.1"} \subseteq DOMAIN answers
    /\ answers["2.9"] = <<"8", "0">>
    /\ answers["2.10"] = <<"1", "0", "0">>
    /\ answers["3.1"] =
          <<"-", "2", "0", " ", "(", "-", "2", "0", ".", "0", "0", "%", ")">>

\* C13: after a validate step final_answer is the validator's corrected text
\* when the verdict is "fail" and corrected is not empty, and in every other
\* case it is the answer the aggregation step left, unchanged
C13_ValidatorCorrection ==
    [][("validate" \in active /\ "validate" \notin active') =>
          /\ final_answer.some
          /\ IF /\ validation'.verdict = <<"f", "a", "i", "l">>
                /\ validation'.corrected # <<>>
             THEN final_answer' = Some(validation'.corrected)
             ELSE final_answer' = final_answer]_vars

\* a finished turn in which a failing verdict replaced the aggregator's text
C13_Witness ==
    /\ status = "done"
    /\ hist.validateRuns > 0
    /\ validation.verdict = <<"f", "a", "i", "l">>
    /\ validation.corrected # <<>>
    /\ final_answer = Some(validation.corrected)

\* C14: per question the final step and the validate step each run exactly
\* once: neither runs a second time, and a finished turn has run both
C14_FinalAndValidateOnce ==
    /\ hist.finalRuns <= 1
    /\ hist.validateRuns <= 1
    /\ status = "done" => (hist.finalRuns = 1 /\ hist.validateRuns = 1)

\* C15: call_planner returns heuristic_plan(question), or, with a backend, the
\* graph of every node of a parsed reply that has at least one node and whose
\* nodes all carry id, text and an integer depth; no exception leaves it
C15_PlannerFallback ==
    [][("planner" \in active /\ "planner" \notin active') =>
          /\ status' = "running"
          /\ \/ dag' = heuristic_plan(query)
             \/ /\ backend
                /\ \E r \in PlannerReplies :
                      /\ r.parsed
                      /\ r.nodes # <<>>
                      /\ Len(dag') = Len(r.nodes)
                      /\ \A i \in 1..Len(r.nodes) :
                            /\ {"id", "text", "depth"} \subseteq DOMAIN r.nodes[i]
                            /\ IsIntText(r.nodes[i].depth)
                            /\ dag'[i].id = r.nodes[i].id
                            /\ dag'[i].text = r.nodes[i].text
                            /\ dag'[i].depth = IntOfText(r.nodes[i].depth)]_vars

\* with a backend the planner step has handed the heuristic plan to the engine
\* (the chat call raised or the reply could not be turned into a graph) and
\* the turn has gone on to solve a node of it
C15_Witness ==
    /\ backend
    /\ dag # <<>>
    /\ dag = heuristic_plan(query)
    /\ "1.1" \in DOMAIN answers

\* C16: malformed output of the chat model never raises out of the resolver
\* or the validator: no turn ends with the exception of such a reply
C16_MalformedOutputContained == error # "malformed"

----------------------------------------------------------------------------
(* Claims about the planner, the completion check and the memory *)

\* C17: heuristic_plan gives node "1.1" of depth 1 without parents, then one
\* node "2.j" of depth 2 per matched metric group in match order (net income,
\* revenue, margin; a single "2.1" when no group matches), each with the one
\* parent "1.1", then node "3.1" of depth 3 with every "2.j" as parent if and
\* only if the question holds a change keyword; the year-over-year question
\* gives exactly 1.1, 2.1 and 3.1
C17_HeuristicPlanShape ==
    dag # <<>> =>
        LET q == Lower(query)
            has(ks) == \E k \in ks : Contains(q, k)
            groups == (IF has(NetIncomeWords) THEN <<"net income">> ELSE <<>>) \o
                      (IF has(RevenueWords) THEN <<"revenue">> ELSE <<>>) \o
                      (IF has(MarginWords) THEN <<"margin">> ELSE <<>>)
            m == IF groups = <<>> THEN 1 ELSE Len(groups)
            ids == <<"2.1", "2.2", "2.3">>
        IN /\ Len(dag) = 1 + m + (IF has(ChangeWords) THEN 1 ELSE 0)
           /\ dag[1].id = "1.1" /\ dag[1].depth = 1 /\ dag[1].depends_on = {}
           /\ \A j \in 1..m :
                 /\ dag[1 + j].id = ids[j]
                 /\ dag[1 + j].depth = 2
                 /\ dag[1 + j].depends_on = {"1.1"}
                 /\ groups # <<>> => dag[1 + j].text = groups[j]
           /\ has(ChangeWords) =>
                 /\ dag[Len(dag)].id = "3.1"
                 /\ dag[Len(dag)].depth = 3
                 /\ dag[Len(dag)].depends_on = {ids[j] : j \in 1..m}
           /\ query = <<"W", "h", "a", "t", " ", "w", "a", "s", " ", "t",
                        "h", "e", " ", "y", "e", "a", "r", "-", "o", "v",
                        "e", "r", "-", "y", "e", "a", "r", " ", "c", "h",
                        "a", "n", "g", "e", " ", "i", "n", " ", "r", "e",
                        "v", "e", "n", "u", "e", "?">> =>
                 /\ NodeIds(dag) = {"1.1", "2.1", "3.1"}
                 /\ NodeOf(dag, "3.1").depends_on = {"2.1"}

\* the plan of a question that names two metric groups, in capitals, and a
\* change keyword
C17_Witness ==
    /\ Len(dag) = 4
    /\ dag[4].id = "3.1"
    /\ dag[2].text = "net income"
    /\ dag[3].text = "margin"
    /\ Contains(query, <<"P", "R", "O", "F", "I", "T">>)

\* C18: is_complete is true if and only if every node id of the plan graph is
\* a key of answers, for every plan graph, the one with no nodes included
C18_CompleteIffAllAnswered ==
    is_complete(dag, [id \in answered |-> <<>>]) <=> NodeIds(dag) \subseteq answered

\* C19: no step of a turn removes a memory slot, and a slot changes only to a
\* non-empty trimmed string; and, for the memory that resolve_node and the
\* end of batch_node hand to merge_memory and each of a set of updates (a padded string, a blank one, an empty one, a value that is
\* no string, for a slot that exists and for one that does not), merge_memory
\* keeps every slot, takes the trimmed value of each non-blank string update
\* and ignores the rest
C19_MergeNeverErases ==
    [][/\ \A k \in DOMAIN memory :
             /\ k \in DOMAIN memory'
             /\ memory'[k] # memory[k] =>
                   (memory'[k] # <<>> /\ Strip(memory'[k]) = memory'[k])
       /\ ("resolve" \in active \/ (inBatch /\ merged = Range(batch))) =>
          LET padded == StrVal(<<" ", "2", "0", "2", "1", " ">>)
              blank  == StrVal(<<" ", " ">>)
              updates ==
                  {EmptyMap} \cup
                  UNION {[{k} -> {padded, blank, StrVal(<<>>), NonStr}] :
                            k \in {"period", "unit"}} \cup
                  {[k \in {"period", "unit"} |->
                       IF k = "period" THEN NonStr ELSE padded]}
          IN \A u \in updates :
                LET m == merge_memory(memory, u)
                IN /\ DOMAIN memory \subseteq DOMAIN m
                   /\ DOMAIN m \subseteq DOMAIN memory \cup DOMAIN u
                   /\ \A k \in DOMAIN m :
                         IF k \in DOMAIN u /\ u[k].str /\ Strip(u[k].s) # <<>>
                         THEN m[k] = Strip(u[k].s)
                         ELSE k \in DOMAIN memory /\ m[k] = memory[k]]_vars

\* the resolver proposed a padded entity and a period that is no string: the
\* entity is stored trimmed, the period of the earlier turn is still there
\* after the first batch step
C19_Witness ==
    /\ backend
    /\ DOMAIN memory = {"period", "entity"}
    /\ memory["period"] = <<"2", "0", "1", "9">>
    /\ memory["entity"] = <<"A", "c", "m", "e">>
    /\ "1.1" \in DOMAIN answers
    /\ ~inBatch

\* C20: every update the resolver returns has a key among entity, period,
\* metric and unit and a string value that is not blank, and no step of a
\* turn adds a memory slot outside that set
C20_ResolverUpdatesKnown ==
    [][/\ DOMAIN memory' \ DOMAIN memory \subseteq
              {"entity", "period", "metric", "unit"}
       /\ "resolve" \in active =>
             \A r \in call_resolver(backend, query) :
                 r.ok =>
                    \A k \in DOMAIN r.memory_updates :
                        /\ k \in {"entity", "period", "metric", "unit"}
                        /\ r.memory_updates[k].str
                        /\ Strip(r.memory_updates[k].s) # <<>>]_vars

\* the resolver's reply proposed entity, a period that is no string and a
\* slot "topic": the resolve step has stored the entity alone
C20_Witness ==
    /\ backend
    /\ "planner" \in active
    /\ query = ScenarioQuestion
    /\ "entity" \in DOMAIN memory
    /\ "topic" \notin DOMAIN memory

----------------------------------------------------------------------------
(* Claims about the REPL *)

----------------------------------------------------------------------------
(* Claims about broken plan graphs *)

\* C22: a node with a parent id that is no node of the graph is in no list
\* that ready returns for a set of node ids; and in the loop no node that has
\* such a parent, reaches one along depends_on, or reaches a node on a
\* dependency cycle (itself included) is ever in the ready list or answered
C22_BrokenNodesNeverRun ==
    LET ids == NodeIds(dag)
        dangling == {n \in ids : NodeOf(dag, n).depends_on \ ids # {}}
        onCycle == {n \in ids : n \in ReachIn(dag, {n}, Len(dag))}
        blocked == {n \in ids :
                      (ReachIn(dag, {n}, Len(dag)) \cup {n})
                          \cap (dangling \cup onCycle) # {}}
    IN /\ \A S \in SUBSET ids : Range(Ids(Ready(dag, S))) \cap dangling = {}
       /\ answered \subseteq ids
       /\ Range(readyOut) \cap blocked = {}
       /\ answered \cap blocked = {}

\* the loop has ended with 1.1 answered while 2.9 has a parent that is no node
\* and 2.10 depends on 2.9
C22_Witness ==
    /\ loopDone
    /\ answered = {"1.1"}
    /\ NodeIds(dag) = {"1.1", "2.9", "2.10"}
    /\ NodeOf(dag, "2.9").depends_on = {"9.9"}
    /\ NodeOf(dag, "2.10").depends_on = {"2.9"}

----------------------------------------------------------------------------
(* Claims about the numeric parsers *)

\* a scorer that parses both sides with parse_number
MatchByParseNumber(pred, gold) ==
    Bind(<<parse_number(pred), parse_number(gold)>>, LAMBDA pg :
      IF ~pg[1].some \/ ~pg[2].some
      THEN Lower(Strip(pred)) = Lower(Strip(gold))
      ELSE WithinTolerance(pg[1].v, pg[2].v))

\* C23: numeric_match gives what parsing both sides with parse_number and
\* matching within the tolerances gives, and case-insensitive equality of the
\* stripped texts when a side does not parse; "$1,234" matches "1234.0",
\* "10%" matches "0.10", "foo" does not match "bar"
C23_NumericMatchByParseNumber ==
    (call.some /\ call.v.fn = "numeric_match" /\ result.some) =>
        LET pred == call.v.args[1]
            gold == call.v.args[2]
        IN /\ (pred = <<"1", "0", "%">> /\ gold = <<"0", ".", "1", "0">>)
                  => result.v = TRUE
           /\ (pred = <<"$", "1", ",", "2", "3", "4">>
                  /\ gold = <<"1", "2", "3", "4", ".", "0">>) => result.v = TRUE
           /\ (pred = <<"f", "o", "o">> /\ gold = <<"b", "a", "r">>)
                  => result.v = FALSE
           /\ result.v = MatchByParseNumber(pred, gold)

\* C24: parse_number("(1,234.50)") is -1234.50, parse_number("12.5%") is
\* 0.125, a text with no digit gives None, and a text gives the same value
\* with and without its grouping separators
C24_ParseNumberGrouping ==
    (call.some /\ call.v.fn = "parse_number" /\ result.some) =>
        LET s == call.v.args[1]
            r == result.v
        IN /\ s = <<"(", "1", ",", "2", "3", "4", ".", "5", "0", ")">>
                  => r.some /\ r.v.n * 100 = -123450 * r.v.d
           /\ s = <<"1", "2", ".", "5", "%">>
                  => r.some /\ r.v.n * 1000 = 125 * r.v.d
           /\ (\A k \in 1..Len(s) : s[k] \notin Digits) => ~r.some
           /\ r = parse_number(Remove(s, ","))

----------------------------------------------------------------------------
(* Claims about reciprocal rank fusion *)

\* C25: query returns at most k chunks, no chunk twice, best fused score
\* first, and the score of a returned chunk is the sum of 1 / (60 + rank)
\* over its own rank in the dense list and its own rank in the sparse list (a
\* list without it adds nothing); so a chunk that is first in both lists has
\* the score 2/61 and is returned first
C25_FusedScoreIsSumOfOwnRanks ==
    (call.some /\ call.v.fn = "query" /\ result.some
       /\ Strip(call.v.args[1]) # <<>>) =>
        LET c   == call.v
            out == result.v
            top == FusedTop(c)
            own(L, ci) == IF \E r \in 1..Len(L) : L[r] = ci
                          THEN rrf(CHOOSE r \in 1..Len(L) : L[r] = ci) ELSE 0
            docs == [r \in 1..Len(c.dense) |-> c.dense[r].doc]
        IN /\ Len(out) <= c.args[2]
           /\ Len(out) = Len(top)
           /\ \A i, j \in 1..Len(top) : top[i].ci = top[j].ci => i = j
           /\ \A i \in 1..(Len(out) - 1) : out[i].score.n >= out[i + 1].score.n
           /\ \A i \in 1..Len(out) :
                  /\ out[i].text = c.chunks[top[i].ci]
                  /\ out[i].score.d = RrfScale
                  /\ out[i].score.n = own(docs, top[i].ci) + own(c.sparse, top[i].ci)
           /\ (docs[1] # 0 /\ docs[1] = c.sparse[1]) =>
                  /\ top[1].ci = docs[1]
                  /\ out[1].score.n = 2 * rrf(1)

----------------------------------------------------------------------------
(* Claims about the memory update of batch_node *)

----------------------------------------------------------------------------
(* Claims about the run on a heuristic plan *)

\* C27: the plan of heuristic_plan has every parent among its nodes at a
\* strictly lower depth; the loop on it runs one batch per depth, batch i
\* answering exactly the nodes of depth i, and ends with every node answered
\* after 3 batches when the question has a change keyword and after 2 when it
\* has none
C27_HeuristicRunTerminates ==
    dag # <<>> =>
        /\ StrictDepths(dag)
        /\ Acyclic(dag) /\ NoDangling(dag)
        /\ max_depth(dag) = IF \E w \in ChangeWords : Contains(Lower(query), w)
                            THEN 3 ELSE 2
        /\ {dag[i].depth : i \in 1..Len(dag)} = 1..max_depth(dag)
        /\ answered = {dag[i].id : i \in {j \in 1..Len(dag) : dag[j].depth <= iters}}
        /\ Ready(dag, answered) = <<>> <=> iters = max_depth(dag)
        /\ loopDone => /\ answered = NodeIds(dag)
                       /\ iters = max_depth(dag)

\* the run on a question with a change keyword has ended after three batches,
\* the last one answering the change node alone
C27_Witness ==
    /\ loopDone
    /\ iters = 3
    /\ readyOut = <<>>
    /\ "3.1" \in answered
    /\ Cardinality(answered) >= 4

----------------------------------------------------------------------------
(* Claims about the parents a solve step reads *)

\* C28: the parents mapping of every _solve call has an entry for each id of
\* the node's depends_on, with the value answers held when the batch started;
\* no id of a depends_on of a node of the batch is a node of the batch, so no
\* write of the batch touches a key that a worker of the batch reads
C28_ParentsCompleteAndStable ==
    [][/\ \A nid \in DOMAIN solved' \ DOMAIN solved :
             /\ DOMAIN solved'[nid].parents = NodeOf(dag, nid).depends_on
             /\ NodeOf(dag, nid).depends_on \cap Range(batch) = {}
             /\ \A p \in NodeOf(dag, nid).depends_on :
                    /\ p \in DOMAIN hist.startAnswers
                    /\ solved'[nid].parents[p] = hist.startAnswers[p]
       /\ \A nid \in merged' \ merged :
             \A other \in Range(batch) :
                 nid \notin NodeOf(dag, other).depends_on]_vars

\* in a batch run on the pool one node's result is written to answers while
\* the result of another node, computed from its parents, waits to be written
C28_Witness ==
    /\ inBatch
    /\ UsesPool
    /\ merged # {}
    /\ \E nid \in DOMAIN solved \ merged :
          /\ solved[nid].ok
          /\ solved[nid].parents # EmptyMap
          /\ DOMAIN solved[nid].parents \subseteq DOMAIN answers

----------------------------------------------------------------------------
(* Claims about the keys of answers and retrieved *)

\* C29: in every state of a turn the keys of answers are keys of retrieved
\* and the keys of retrieved are node ids of the plan; whenever batch_node is
\* not in the middle of a batch the two key sets are equal
C29_AnswersWithinRetrieved ==
    /\ DOMAIN answers \subseteq DOMAIN retrieved
    /\ DOMAIN retrieved \subseteq NodeIds(dag)
    /\ ~inBatch => DOMAIN answers = DOMAIN retrieved

\* compute_node has rewritten answers["3.1"] after the last batch: every node
\* of the plan has an answer and its snippets
C29_Witness ==
    /\ ~inBatch
    /\ hist.computeRuns > 0
    /\ "3.1" \in DOMAIN answers
    /\ EndsWith(answers["3.1"], <<"%", ")">>)
    /\ DOMAIN answers = NodeIds(dag)
    /\ DOMAIN retrieved = NodeIds(dag)

----------------------------------------------------------------------------
(* Claims about errors of the compute step *)

\* C30: no turn ends with an exception raised by compute_node
C30_ComputeNeverRaises == error # "compute"

----------------------------------------------------------------------------
(* Claims about the contributions to a fused score *)

\* C31: the score of every chunk that query returns is made of at most one
\* contribution 1 / (60 + rank) of the dense list and at most one of the
\* sparse list (rank 0 below: the list adds nothing), also for a chunk list
\* that holds one text twice whose dense hits are mapped back by text; so no
\* returned score is above 2/61
C31_OneContributionPerList ==
    (call.some /\ call.v.fn = "query" /\ result.some) =>
        LET c   == call.v
            out == result.v
            part(r) == IF r = 0 THEN 0 ELSE rrf(r)
        IN \A i \in 1..Len(out) :
               /\ \E rd \in 0..Len(c.dense), rs \in 0..Len(c.sparse) :
                      out[i].score.n = part(rd) + part(rs)
               /\ out[i].score.d = RrfScale
               /\ out[i].score.n <= 2 * rrf(1)

====
